---- MODULE Spec2Model ----
(***************************************************************************)
(* jxmlease: the XML node tree (XMLDictNode / XMLListNode / XMLCDATANode)  *)
(* with its replacement protocol, the SAX handler that builds the tree     *)
(* and records generator matches, and the chunked generator of the Parser. *)
(*                                                                         *)
(* Python objects live in a heap: a sequence of node records, a node's     *)
(* identity being its index.  A text is a sequence of one-character        *)
(* strings; an OrderedDict is a pair of parallel sequences (keys, vals);   *)
(* xml_attrs is a sequence of <<name, value>> pairs.                       *)
(***************************************************************************)
EXTENDS Integers, Sequences, FiniteSets, TLC

\* Python's None as a tag or key, and as an object reference.
None == "None"
NoRef == 0

\* Exceptions, by the raise statement that produces them.
NoError == "ok"
StaleNodeError == "AttributeError: Attempt to modify an out-of-date node"
RootError == "AttributeError: Attempt to modify root document"
NotFoundError == "AttributeError: Unable to find existing node in parent"
ListAddError == "TypeError: Unable to add a child node to a list"
NodeTypeError == "TypeError: 'new_node' argument must be a subclass of XMLNodeBase"

----------------------------------------------------------------------------
(* Sequence helpers *)

RemoveAt(s, i) == SubSeq(s, 1, i - 1) \o SubSeq(s, i + 1, Len(s))

\* Index of the first occurrence of x in s, 0 when absent.
IndexOf(s, x) ==
    IF \E i \in 1..Len(s) : s[i] = x
    THEN CHOOSE i \in 1..Len(s) : s[i] = x /\ \A j \in 1..(i - 1) : s[j] # x
    ELSE 0

\* The least element of a non-empty set of integers.
Least(S) == CHOOSE i \in S : \A j \in S : i <= j

\* Sequencing: the value v of one statement, handed to the statements K
\* that follow it.
Bind(v, K(_)) == K(v)

----------------------------------------------------------------------------
(* Node constructors: XMLNodeBase.__init__ sets tag, key, xml_attrs (a     *)
(* copy), text, parent and _replacement_node = None.                       *)

NewNode(kind, tag, key, parent, xml_attrs, text, keys, vals) ==
    [kind |-> kind, tag |-> tag, key |-> key, parent |-> parent,
     xml_attrs |-> xml_attrs, text |-> text, repl |-> NoRef,
     keys |-> keys, vals |-> vals, ignore_level |-> FALSE]

XMLCDATANode(text, tag, key, parent, xml_attrs) ==
    NewNode("cdata", tag, key, parent, xml_attrs, text, <<>>, <<>>)

XMLDictNode(tag, key, parent, text, xml_attrs) ==
    NewNode("dict", tag, key, parent, xml_attrs, text, <<>>, <<>>)

XMLListNode(members, tag, key, parent) ==
    NewNode("list", tag, key, parent, <<>>, <<>>, <<>>, members)

\* Results of node methods: the heap afterwards, the returned reference and
\* the exception raised (NoError when the call returns).
Return(H, ret) == [heap |-> H, ret |-> ret, err |-> NoError]
Raise(H, e) == [heap |-> H, ret |-> NoRef, err |-> e]

----------------------------------------------------------------------------
(* Python truth value and equality of nodes *)

\* bool(node): a node is a unicode, OrderedDict or list subclass, so it is
\* false when its text (its entries) is empty.
Truthy(H, r) ==
    /\ r # NoRef
    /\ IF H[r].kind = "cdata" THEN H[r].text # <<>> ELSE H[r].vals # <<>>

\* x == y: unicode, OrderedDict and list equality; tag, key, attributes and
\* the text of a dictionary are not compared.
RECURSIVE NodeEq(_, _, _)
NodeEq(H, x, y) ==
    IF H[x].kind # H[y].kind THEN FALSE
    ELSE IF H[x].kind = "cdata" THEN H[x].text = H[y].text
    ELSE /\ H[x].keys = H[y].keys
         /\ Len(H[x].vals) = Len(H[y].vals)
         /\ \A i \in 1..Len(H[x].vals) : NodeEq(H, H[x].vals[i], H[y].vals[i])

\* x is y.
NodeIs(H, x, y) == x = y

\* What a reader of node n sees below it: its own text and attributes and,
\* slot by slot, the same of its entries.
RECURSIVE Content(_, _)
Content(H, n) ==
    [kind |-> H[n].kind, tag |-> H[n].tag, text |-> H[n].text,
     xml_attrs |-> H[n].xml_attrs, keys |-> H[n].keys,
     children |-> [i \in 1..Len(H[n].vals) |-> Content(H, H[n].vals[i])]]

\* _check_replacement raises when this is TRUE.
CheckReplacement(H, n) == Truthy(H, H[n].repl)

----------------------------------------------------------------------------
(* _replace_node *)

SetSlot(H, c, i, new) == [H EXCEPT ![c].vals[i] = new]

DelSlot(H, c, i) ==
    [H EXCEPT ![c].vals = RemoveAt(@, i),
              ![c].keys = IF H[c].kind = "dict" THEN RemoveAt(@, i) ELSE @]

\* First index of container c whose entry compares equal to node n.
FirstEqual(H, c, n) ==
    LET S == {i \in 1..Len(H[c].vals) : NodeEq(H, H[c].vals[i], n)}
    IN IF S = {} THEN 0 ELSE Least(S)

FirstSame(H, c, n) ==
    LET S == {i \in 1..Len(H[c].vals) : NodeIs(H, H[c].vals[i], n)}
    IN IF S = {} THEN 0 ELSE Least(S)

\* The scan a replacement uses to find the node in a container.
FindInContainerMutant(H, c, n) == FirstSame(H, c, n)
FindInContainer(H, c, n) == FirstEqual(H, c, n)

RECURSIVE ReplaceNode(_, _, _)
RECURSIVE ReplaceCase1(_, _, _)
RECURSIVE ReplacePlanB(_, _, _, _, _)
RECURSIVE ReplaceCase2(_, _, _)

\* Plan B at entry i of the dictionary p: the first entry that is the node
\* or a list holding it.
ReplacePlanB(H, n, new, p, i) ==
    LET val == H[p].vals[i]
        key == H[p].keys[i]
    IN IF NodeEq(H, val, n) THEN
           [heap |-> IF new # NoRef
                     THEN SetSlot([H EXCEPT ![new].key = key], p, i, new)
                     ELSE DelSlot(H, p, i),
            done |-> TRUE]
       ELSE Bind(FindInContainer(H, val, n), LAMBDA j :
            IF new # NoRef THEN
                [heap |-> SetSlot([H EXCEPT ![new].key = key, ![new].parent = val],
                                  val, j, new),
                 done |-> TRUE]
            ELSE Bind(DelSlot(H, val, j), LAMBDA H1 :
                 IF Len(H1[val].vals) = 0 THEN
                     Bind(ReplaceNode(H1, val, NoRef), LAMBDA r :
                          [heap |-> r.heap, done |-> r.err = NoError])
                 ELSE [heap |-> H1, done |-> TRUE]))

\* Case 1, parent is a dictionary (the first try block).  A [heap, done]
\* record; done = FALSE when the block ends without returning, normally or
\* through the bare except.
ReplaceCase1(H, n, new) ==
    LET p == H[n].parent
        k == IndexOf(H[p].keys, H[n].key)
    IN IF H[p].kind # "dict" THEN
           \* list parent: "key in parent" compares members with the key,
           \* then parent[key] raises TypeError or parent.items()
           \* AttributeError; both are swallowed.
           [heap |-> H, done |-> FALSE]
       ELSE IF k # 0 /\ NodeEq(H, H[p].vals[k], n) THEN
           \* Plan A: lookup by the expected key.
           [heap |-> IF new # NoRef THEN SetSlot(H, p, k, new) ELSE DelSlot(H, p, k),
            done |-> TRUE]
       ELSE Bind({i \in 1..Len(H[p].vals) :
                     \/ NodeEq(H, H[p].vals[i], n)
                     \/ /\ H[H[p].vals[i]].kind = "list"
                        /\ FindInContainer(H, H[p].vals[i], n) # 0},
                 LAMBDA hits :
            IF hits = {} THEN [heap |-> H, done |-> FALSE]
            ELSE ReplacePlanB(H, n, new, p, Least(hits)))

\* A second try block that leaves an emptied list where it is.
ReplaceCase2Mutant(H, n, new) ==
    LET p == H[n].parent
    IN IF H[p].kind # "list" THEN [heap |-> H, done |-> FALSE]
       ELSE Bind(FindInContainer(H, p, n), LAMBDA i :
            IF i = 0 THEN [heap |-> H, done |-> FALSE]
            ELSE IF new # NoRef THEN [heap |-> SetSlot(H, p, i, new), done |-> TRUE]
            ELSE [heap |-> DelSlot(H, p, i), done |-> TRUE])

\* Case 2, parent is a list (the second try block).
ReplaceCase2(H, n, new) ==
    LET p == H[n].parent
    IN IF H[p].kind # "list" THEN
           \* parent[i] with an integer index fails on a dictionary.
           [heap |-> H, done |-> FALSE]
       ELSE Bind(FindInContainer(H, p, n), LAMBDA i :
            IF i = 0 THEN [heap |-> H, done |-> FALSE]
            ELSE IF new # NoRef THEN [heap |-> SetSlot(H, p, i, new), done |-> TRUE]
            ELSE Bind(DelSlot(H, p, i), LAMBDA H1 :
                 IF Len(H1[p].vals) = 0 THEN
                     Bind(ReplaceNode(H1, p, NoRef), LAMBDA r :
                          [heap |-> r.heap, done |-> r.err = NoError])
                 ELSE [heap |-> H1, done |-> TRUE]))

\* _replace_node(newnode); new = NoRef deletes the node.
\* The same with _replacement_node set before the test for a parent.
ReplaceNodeMutant(H, n, new) ==
    IF CheckReplacement(H, n) THEN Raise(H, StaleNodeError)
    ELSE IF H[n].parent = NoRef THEN Raise([H EXCEPT ![n].repl = new], RootError)
    ELSE Bind(ReplaceCase1(IF new # NoRef THEN [H EXCEPT ![n].repl = new] ELSE H, n, new),
              LAMBDA c1 :
         IF c1.done THEN Return(c1.heap, NoRef)
         ELSE Bind(ReplaceCase2(c1.heap, n, new), LAMBDA c2 :
              IF c2.done THEN Return(c2.heap, NoRef)
              ELSE Raise(c2.heap, NotFoundError)))
ReplaceNode(H, n, new) ==
    IF CheckReplacement(H, n) THEN Raise(H, StaleNodeError)
    ELSE IF H[n].parent = NoRef THEN Raise(H, RootError)
    ELSE Bind(ReplaceCase1(IF new # NoRef THEN [H EXCEPT ![n].repl = new] ELSE H, n, new),
              LAMBDA c1 :
         IF c1.done THEN Return(c1.heap, NoRef)
         ELSE Bind(ReplaceCase2(c1.heap, n, new), LAMBDA c2 :
              IF c2.done THEN Return(c2.heap, NoRef)
              ELSE Raise(c2.heap, NotFoundError)))

----------------------------------------------------------------------------
(* Text methods *)

Whitespace == {" ", "\n"}

\* unicode.strip(text): drop leading and trailing whitespace.
RECURSIVE LStrip(_)
LStrip(t) == IF t # <<>> /\ Head(t) \in Whitespace THEN LStrip(Tail(t)) ELSE t

RECURSIVE RStrip(_)
RStrip(t) ==
    IF t # <<>> /\ t[Len(t)] \in Whitespace THEN RStrip(SubSeq(t, 1, Len(t) - 1)) ELSE t

StripMutant(t) == LStrip(t)
Strip(t) == RStrip(LStrip(t))

\* get_cdata
GetCdata(H, n) == H[n].text

\* set_cdata: XMLCDATANode.set_cdata builds a new node and replaces the old
\* one; XMLNodeBase.set_cdata (dictionary, list) assigns the text in place.
SetCdataMutant(H, n, cdata) ==
    IF CheckReplacement(H, n) THEN Raise(H, StaleNodeError)
    ELSE IF H[n].kind = "cdata" THEN
        Bind(ReplaceNode(Append(H, XMLCDATANode(cdata, H[n].tag, H[n].key, H[n].parent, <<>>)),
                         n, Len(H) + 1),
             LAMBDA r : IF r.err = NoError THEN Return(r.heap, Len(H) + 1) ELSE r)
    ELSE Return([H EXCEPT ![n].text = cdata], n)
SetCdata(H, n, cdata) ==
    IF CheckReplacement(H, n) THEN Raise(H, StaleNodeError)
    ELSE IF H[n].kind = "cdata" THEN
        \* newnode = XMLCDATANode(...) is the object at Len(H) + 1.
        Bind(ReplaceNode(Append(H, XMLCDATANode(cdata, H[n].tag, H[n].key,
                                                H[n].parent, H[n].xml_attrs)),
                         n, Len(H) + 1),
             LAMBDA r : IF r.err = NoError THEN Return(r.heap, Len(H) + 1) ELSE r)
    ELSE Return([H EXCEPT ![n].text = cdata], n)

\* append_cdata
AppendCdata(H, n, cdata) ==
    IF CheckReplacement(H, n) THEN Raise(H, StaleNodeError)
    ELSE SetCdata(H, n, H[n].text \o cdata)

\* strip_cdata
StripCdata(H, n) ==
    IF CheckReplacement(H, n) THEN Raise(H, StaleNodeError)
    ELSE SetCdata(H, n, Strip(GetCdata(H, n)))

----------------------------------------------------------------------------
(* Attributes *)

AttrIndex(attrs, a) ==
    IF \E i \in 1..Len(attrs) : attrs[i][1] = a
    THEN CHOOSE i \in 1..Len(attrs) : attrs[i][1] = a
    ELSE 0

\* OrderedDict assignment: an existing name keeps its position.
AttrSet(attrs, a, v) ==
    IF AttrIndex(attrs, a) # 0
    THEN [attrs EXCEPT ![AttrIndex(attrs, a)] = <<a, v>>]
    ELSE Append(attrs, <<a, v>>)

KeyError == "KeyError"

\* set_xml_attr
SetXmlAttr(H, n, attr, val) ==
    IF CheckReplacement(H, n) THEN Raise(H, StaleNodeError)
    ELSE Return([H EXCEPT ![n].xml_attrs = AttrSet(@, attr, val)], NoRef)

\* delete_xml_attr
DeleteXmlAttr(H, n, attr) ==
    IF CheckReplacement(H, n) THEN Raise(H, StaleNodeError)
    ELSE IF AttrIndex(H[n].xml_attrs, attr) = 0 THEN Raise(H, KeyError)
    ELSE Return([H EXCEPT ![n].xml_attrs = RemoveAt(@, AttrIndex(@, attr))], NoRef)

----------------------------------------------------------------------------
(* get_current_node *)

\* The while loop: self._replacement_node moves one link at a time until the
\* node it names has no replacement of its own.
RECURSIVE FollowReplacements(_, _)
FollowReplacements(H, n) ==
    IF H[H[n].repl].repl # NoRef
    THEN FollowReplacements([H EXCEPT ![n].repl = H[H[n].repl].repl], n)
    ELSE H

GetCurrentNodeMutant(H, n) ==
    IF H[n].repl # NoRef THEN Return(H, H[n].repl) ELSE Return(H, n)
GetCurrentNode(H, n) ==
    IF H[n].repl # NoRef
    THEN LET H1 == FollowReplacements(H, n) IN Return(H1, H1[n].repl)
    ELSE Return(H, n)

----------------------------------------------------------------------------
(* add_node *)

\* Python truth value of a key: None and the empty string are false.
KeyGiven(key) == key # None /\ key # ""

\* A new list for entry k of n that leaves the parent of the node that was
\* there as it is.
WrapInListMutant(H, n, k, tag, usekey, update) ==
    SetSlot(Append(H, XMLListNode(<<H[n].vals[k]>>, tag, usekey, n)), n, k, Len(H) + 1)

\* "if key in self", first branch: the entry k of n that is not yet a list
\* becomes a new list holding it.
WrapInList(H, n, k, tag, usekey, update) ==
    LET old_node == H[n].vals[k]
        lst == Len(H) + 1
        H1 == SetSlot(Append(H, XMLListNode(<<old_node>>, tag, usekey, n)), n, k, lst)
    IN IF update THEN [H1 EXCEPT ![old_node].parent = lst] ELSE H1

\* self[key].append(new_node)
AppendToList(H, lst, node, update) ==
    Return([(IF update THEN [H EXCEPT ![node].parent = lst] ELSE H)
                EXCEPT ![lst].vals = Append(@, node)], node)

\* The second half of XMLDictNode.add_node: node goes under usekey.
DictAddEntry(H, n, tag, usekey, node, update) ==
    LET k == IndexOf(H[n].keys, usekey)
    IN IF k # 0 THEN
           IF H[H[n].vals[k]].kind # "list"
           THEN AppendToList(WrapInList(H, n, k, tag, usekey, update), Len(H) + 1,
                             node, update)
           ELSE AppendToList(H, H[n].vals[k], node, update)
       ELSE Return([(IF update THEN [H EXCEPT ![node].parent = n] ELSE H)
                        EXCEPT ![n].keys = Append(@, usekey),
                               ![n].vals = Append(@, node)], node)

\* A new_node argument that is not an instance of XMLNodeBase.
NotANode == -1

\* An add_node that leaves the key of the node it creates at its tag.
DictAddNodeMutant(H, n, tag, key, text, xml_attrs, new_node, update) ==
    IF CheckReplacement(H, n) THEN Raise(H, StaleNodeError)
    ELSE IF new_node = NotANode THEN Raise(H, NodeTypeError)
    ELSE IF new_node = NoRef THEN
        DictAddEntry(Append(H, XMLCDATANode(text, tag, tag, NoRef, xml_attrs)),
                     n, tag, IF KeyGiven(key) THEN key ELSE tag, Len(H) + 1, update)
    ELSE
        DictAddEntry([H EXCEPT ![new_node].key = IF KeyGiven(key) /\ update THEN key ELSE @,
                               ![new_node].tag = IF update THEN tag ELSE @],
                     n, tag,
                     IF KeyGiven(key) THEN key
                     ELSE IF KeyGiven(H[new_node].key) THEN H[new_node].key
                     ELSE tag,
                     new_node, update)

\* XMLDictNode.add_node(tag, key, text, new_node, update, xml_attrs=...).
\* new_node = NoRef stands for new_node=None.
DictAddNode(H, n, tag, key, text, xml_attrs, new_node, update) ==
    IF CheckReplacement(H, n) THEN Raise(H, StaleNodeError)
    ELSE IF new_node = NotANode THEN Raise(H, NodeTypeError)
    ELSE IF new_node = NoRef THEN
        \* new_node = XMLCDATANode(text, tag=tag, **kwargs) is the object at
        \* Len(H) + 1.
        DictAddEntry([Append(H, XMLCDATANode(text, tag, tag, NoRef, xml_attrs))
                         EXCEPT ![Len(H) + 1].key = IF KeyGiven(key) /\ update THEN key ELSE @],
                     n, tag, IF KeyGiven(key) THEN key ELSE tag, Len(H) + 1, update)
    ELSE
        DictAddEntry([H EXCEPT ![new_node].key = IF KeyGiven(key) /\ update THEN key ELSE @,
                               ![new_node].tag = IF update THEN tag ELSE @],
                     n, tag,
                     IF KeyGiven(key) THEN key
                     ELSE IF KeyGiven(H[new_node].key) THEN H[new_node].key
                     ELSE tag,
                     new_node, update)

\* XMLCDATANode.add_node: become a dictionary (the object at Len(H) + 1), add
\* the child to it, then replace ourselves with it.
CdataAddNode(H, n, tag, key, text, xml_attrs, new_node, update) ==
    IF CheckReplacement(H, n) THEN Raise(H, StaleNodeError)
    ELSE Bind(DictAddNode(Append(H, XMLDictNode(H[n].tag, H[n].key, H[n].parent,
                                                H[n].text, H[n].xml_attrs)),
                          Len(H) + 1, tag, key, text, xml_attrs, new_node, update),
              LAMBDA rv :
         IF rv.err # NoError THEN rv
         ELSE Bind(ReplaceNode(rv.heap, n, Len(H) + 1), LAMBDA r :
              IF r.err # NoError THEN r ELSE Return(r.heap, rv.ret)))

\* XMLListNode.add_node
\* The same without the TypeError.
ListAddNodeMutant(H, n) ==
    IF CheckReplacement(H, n) THEN Raise(H, StaleNodeError)
    ELSE Return(H, NoRef)
ListAddNode(H, n) ==
    IF CheckReplacement(H, n) THEN Raise(H, StaleNodeError)
    ELSE Raise(H, ListAddError)

AddNode(H, n, tag, key, text, xml_attrs, new_node, update) ==
    IF H[n].kind = "dict" THEN DictAddNode(H, n, tag, key, text, xml_attrs, new_node, update)
    ELSE IF H[n].kind = "cdata" THEN CdataAddNode(H, n, tag, key, text, xml_attrs, new_node, update)
    ELSE ListAddNode(H, n)

----------------------------------------------------------------------------
(* XMLListNode.dict() *)

\* for child in self: newnode.add_node(tag=child.tag, key=newkey,
\* new_node=child, update=in_place), with in_place=False and, no attrs, tags
\* or func being given, newkey = child.tag.
RECURSIVE ListDictAdd(_, _, _, _)
ListDictAdd(H, l, newnode, i) ==
    IF i > Len(H[l].vals) THEN Return(H, newnode)
    ELSE Bind(DictAddNode(H, newnode, H[H[l].vals[i]].tag,
                          IF KeyGiven(H[H[l].vals[i]].tag) THEN H[H[l].vals[i]].tag
                          ELSE None,
                          <<>>, <<>>, H[l].vals[i], FALSE), LAMBDA r :
         IF r.err # NoError THEN r ELSE ListDictAdd(r.heap, l, newnode, i + 1))

\* lst.dict(): a new dictionary (the object at Len(H) + 1) with the list's
\* tag, key and parent, marked _ignore_level, holding the members.
ListDict(H, l) ==
    ListDictAdd(Append(H, [XMLDictNode(H[l].tag, H[l].key, H[l].parent, <<>>, <<>>)
                              EXCEPT !.ignore_level = TRUE]),
                l, Len(H) + 1, 1)

----------------------------------------------------------------------------
(* emit_handler: the calls made on the ContentHandler *)

ValueError == "ValueError: Document will have more than one root node"

Newl == <<"\n">>
Indent == <<" ", " ", " ", " ">>

\* depth * indent
RECURSIVE Times(_, _)
Times(t, k) == IF k = 0 THEN <<>> ELSE t \o Times(t, k - 1)

\* One call on the ContentHandler.
SinkCall(type, name, attrs, data) ==
    [type |-> type, name |-> name, attrs |-> attrs, data |-> data]

IgnorableWhitespace(data) == SinkCall("ignorableWhitespace", None, <<>>, data)

RECURSIVE EmitNode(_, _, _, _)
RECURSIVE EmitMembers(_, _, _, _, _)

\* The loop over the children of a list or of a transparent dictionary
\* (a new line between top-level elements), and over the entries of an
\* element (one level deeper, so never a new line).
EmitMembers(H, vals, i, depth, pretty) ==
    IF i > Len(vals) THEN <<>>
    ELSE (IF pretty /\ depth = 0 /\ i > 1 THEN <<IgnorableWhitespace(Newl)>> ELSE <<>>)
         \o EmitNode(H, vals[i], depth, pretty)
         \o EmitMembers(H, vals, i + 1, depth, pretty)

\* The element of a node with a tag: leaf (XMLCDATANode._emit_handler) or
\* dictionary (XMLDictNode._emit_handler, second half).
EmitElement(H, n, depth, pretty) ==
    (IF pretty THEN <<IgnorableWhitespace(Times(Indent, depth))>> ELSE <<>>)
    \o <<SinkCall("startElement", H[n].tag, H[n].xml_attrs, <<>>)>>
    \o (IF H[n].kind = "cdata"
        THEN <<SinkCall("characters", None, <<>>, GetCdata(H, n))>>
        ELSE (IF pretty /\ Len(H[n].vals) > 0 THEN <<IgnorableWhitespace(Newl)>> ELSE <<>>)
             \o EmitMembers(H, H[n].vals, 1, depth + 1, pretty)
             \o <<SinkCall("characters", None, <<>>, Strip(GetCdata(H, n)))>>
             \o (IF pretty /\ Len(H[n].vals) > 0
                 THEN <<IgnorableWhitespace(Times(Indent, depth))>> ELSE <<>>))
    \o <<SinkCall("endElement", H[n].tag, <<>>, <<>>)>>
    \o (IF pretty /\ depth > 0 THEN <<IgnorableWhitespace(Newl)>> ELSE <<>>)

\* node._emit_handler(content_handler, depth, pretty, newl, indent)
EmitNode(H, n, depth, pretty) ==
    IF H[n].kind = "list" THEN EmitMembers(H, H[n].vals, 1, depth, pretty)
    ELSE IF H[n].kind = "dict" /\ ((H[n].tag = None /\ depth = 0) \/ H[n].ignore_level)
    THEN EmitMembers(H, H[n].vals, 1, depth, pretty)
    ELSE EmitElement(H, n, depth, pretty)

\* The while loop of emit_handler: full_document_ok and the node it stops at.
RECURSIVE FullDocumentOk(_, _)
FullDocumentOk(H, curnode) ==
    IF H[curnode].kind = "cdata" THEN [ok |-> TRUE, curnode |-> curnode]
    ELSE IF H[curnode].kind = "list" /\ Len(H[curnode].vals) > 1
    THEN [ok |-> FALSE, curnode |-> curnode]
    ELSE IF Len(H[curnode].vals) = 0 THEN [ok |-> TRUE, curnode |-> curnode]
    ELSE IF (H[curnode].tag = None /\ H[curnode].kind = "dict") \/ H[curnode].kind = "list"
    THEN IF Len(H[curnode].vals) > 1 THEN [ok |-> FALSE, curnode |-> curnode]
         ELSE FullDocumentOk(H, H[curnode].vals[1])
    ELSE [ok |-> TRUE, curnode |-> curnode]

\* The guess made when full_document is not given: a full document when it
\* is OK and the node looks like the root.
GuessFullDocument(H, n, ok) ==
    /\ ok
    /\ ~(/\ H[n].tag # None
         /\ H[n].parent # NoRef
         /\ (H[H[n].parent].tag # None \/ Len(H[H[n].parent].vals) > 1))

\* emit_handler(content_handler, pretty, full_document=...): the calls the
\* ContentHandler receives and the exception raised.  full_document is
\* "None", "True" or "False".
EmitHandler(H, n, pretty, full_document) ==
    Bind(FullDocumentOk(H, n), LAMBDA w :
    IF full_document = "True" /\ ~w.ok THEN [out |-> <<>>, err |-> ValueError]
    ELSE Bind(IF full_document = "None" THEN GuessFullDocument(H, n, w.ok)
              ELSE full_document = "True", LAMBDA full :
         [out |-> (IF full THEN <<SinkCall("startDocument", None, <<>>, <<>>)>> ELSE <<>>)
                  \o EmitNode(H, w.curnode, 0, pretty)
                  \o (IF full THEN <<SinkCall("endDocument", None, <<>>, <<>>)>> ELSE <<>>),
          err |-> NoError]))

----------------------------------------------------------------------------
(* _DictSAXHandler: match strings *)

ConfigWarning == "Warning: Match condition contains empty path elements"
IndexError == "IndexError"
AssertionError == "AssertionError: endDocument() called with open elements"

\* A match string is a sequence of one-character strings.  Str gives the
\* Python string it stands for.
RECURSIVE Str(_)
Str(t) == IF t = <<>> THEN "" ELSE Head(t) \o Str(Tail(t))

\* match_string.split("/")
RECURSIVE Split(_)
Split(t) ==
    LET i == IndexOf(t, "/")
    IN IF i = 0 THEN <<t>>
       ELSE <<SubSeq(t, 1, i - 1)>> \o Split(SubSeq(t, i + 1, Len(t)))

\* _GeneratorMatch
GeneratorMatch(rooted, elements, depth, match_string) ==
    [rooted |-> rooted, elements |-> elements, depth |-> depth,
     match_string |-> match_string, err |-> NoError]

\* _parse_generator_matches
\* The same with the trailing empty element left in place.
ParseGeneratorMatchesKeepMutant(match_string) ==
    LET parsed == Split(match_string)
        rooted == parsed[1] = <<>>
        p1 == IF rooted THEN Tail(parsed) ELSE parsed
    IN IF p1 = <<>> THEN
           [GeneratorMatch(rooted, <<>>, 0, Str(match_string)) EXCEPT !.err = IndexError]
       ELSE IF \E i \in 1..Len(p1) : p1[i] = <<>> THEN
           [GeneratorMatch(rooted, <<>>, 0, Str(match_string)) EXCEPT !.err = ConfigWarning]
       ELSE GeneratorMatch(rooted, [i \in 1..Len(p1) |-> Str(p1[i])], Len(p1),
                           Str(match_string))
\* The same without the loop that looks for other empty elements.
ParseGeneratorMatchesMutant(match_string) ==
    LET parsed == Split(match_string)
        rooted == parsed[1] = <<>>
        p1 == IF rooted THEN Tail(parsed) ELSE parsed
        p2 == IF p1[Len(p1)] = <<>> THEN SubSeq(p1, 1, Len(p1) - 1) ELSE p1
    IN IF p1 = <<>> THEN
           [GeneratorMatch(rooted, <<>>, 0, Str(match_string)) EXCEPT !.err = IndexError]
       ELSE GeneratorMatch(rooted, [i \in 1..Len(p2) |-> Str(p2[i])], Len(p2),
                           Str(match_string))
ParseGeneratorMatches(match_string) ==
    LET parsed == Split(match_string)
        rooted == parsed[1] = <<>>
        p1 == IF rooted THEN Tail(parsed) ELSE parsed
        p2 == IF p1[Len(p1)] = <<>> THEN SubSeq(p1, 1, Len(p1) - 1) ELSE p1
    IN IF p1 = <<>> THEN
           [GeneratorMatch(rooted, <<>>, 0, Str(match_string)) EXCEPT !.err = IndexError]
       ELSE IF \E i \in 1..Len(p2) : p2[i] = <<>> THEN
           [GeneratorMatch(rooted, <<>>, 0, Str(match_string)) EXCEPT !.err = ConfigWarning]
       ELSE GeneratorMatch(rooted, [i \in 1..Len(p2) |-> Str(p2[i])], Len(p2),
                           Str(match_string))

\* "effectively, infinity"
Infinity == 1000000

Min(a, b) == IF a < b THEN a ELSE b

RECURSIVE MinDepth(_, _)
MinDepth(tests, acc) ==
    IF tests = <<>> THEN acc
    ELSE MinDepth(Tail(tests), IF Head(tests).depth < acc THEN Head(tests).depth ELSE acc)

\* The depth of the first match string instead of the smallest.
MatchDepthOfMutant(tests) == IF Len(tests) > 0 THEN tests[1].depth ELSE -1

\* The match_depth computed by __init__.
MatchDepthOf(tests) == IF Len(tests) > 0 THEN MinDepth(tests, Infinity) ELSE -1

\* __init__: the handler's fields, with the node heap it works on.
DictSAXHandler(H, xml_attribs, strip_whitespace, cdata_separator, generator) ==
    LET tests == [i \in 1..Len(generator) |-> ParseGeneratorMatches(generator[i])]
        bad == {i \in 1..Len(tests) : tests[i].err # NoError}
        depth == MatchDepthOf(tests)
    IN [heap |-> Append(H, XMLDictNode(None, None, NoRef, <<>>, <<>>)),
        path |-> <<>>, stack |-> <<>>, matches |-> <<>>,
        root |-> Len(H) + 1, item |-> Len(H) + 1,
        xml_attribs |-> xml_attribs, strip_whitespace |-> strip_whitespace,
        match_tests |-> tests, match_depth |-> depth,
        in_ignore |-> (depth > 0),
        cdata_separator |-> cdata_separator,
        need_cdata_separator |-> FALSE, processing_started |-> FALSE,
        err |-> IF bad = {} THEN NoError ELSE tests[Least(bad)].err]

----------------------------------------------------------------------------
(* _DictSAXHandler: matching *)

\* '/'.join([""] + path), or "/" when that is empty.
RECURSIVE JoinPath(_)
JoinPath(path) ==
    IF path = <<>> THEN "" ELSE JoinPath(SubSeq(path, 1, Len(path) - 1)) \o "/" \o path[Len(path)]

MatchPath(path) == IF JoinPath(path) = "" THEN "/" ELSE JoinPath(path)

\* path[-depth:], for depth <= len(path): the last depth entries, and the
\* whole list when depth = 0.
LastEntries(path, depth) ==
    IF depth = 0 THEN path ELSE SubSeq(path, Len(path) - depth + 1, Len(path))

\* A loop body without the length test of a rooted match.
TestMatchesMutant(match, path) ==
    /\ Len(path) >= match.depth
    /\ match.elements = LastEntries(path, match.depth)

\* One pass of the loop body: TRUE when the loop appends a match and breaks.
TestMatches(match, path) ==
    /\ ~(match.rooted /\ Len(path) # match.depth)
    /\ ~(~match.rooted /\ Len(path) < match.depth)
    /\ match.elements = LastEntries(path, match.depth)

\* The tuple appended for the match test i.
MatchTuple(s, i) ==
    [path |-> MatchPath(s.path),
     match_string |-> s.match_tests[i].match_string,
     node |-> s.item]

\* A loop without the break: every matching test appends its tuple.
RECURSIVE AppendAllMatches(_, _)
AppendAllMatches(s, i) ==
    IF i > Len(s.match_tests) THEN s
    ELSE AppendAllMatches(
             IF TestMatches(s.match_tests[i], s.path)
             THEN [s EXCEPT !.matches = Append(@, MatchTuple(s, i))]
             ELSE s, i + 1)

CheckGeneratorMatchesMutant(s) ==
    IF s.match_depth > Len(s.path) THEN s ELSE AppendAllMatches(s, 1)

\* _check_generator_matches
CheckGeneratorMatches(s) ==
    IF s.match_depth > Len(s.path) THEN s
    ELSE LET hits == {i \in 1..Len(s.match_tests) : TestMatches(s.match_tests[i], s.path)}
         IN IF hits = {} THEN s
            ELSE [s EXCEPT !.matches = Append(@, MatchTuple(s, Least(hits)))]

----------------------------------------------------------------------------
(* _DictSAXHandler: events *)

\* _build_name with namespaces=None and strip_namespace=False, the
\* configuration modelled here.
BuildName(s, full_name) == full_name

\* A start_element that leaves the ignore region one level late.
StartElementLateMutant(s, full_name, attrs_in) ==
    Bind([s EXCEPT !.processing_started = TRUE,
                   !.path = Append(@, BuildName(s, full_name))], LAMBDA s1 :
    Bind(IF s1.in_ignore /\ Len(s1.path) > s1.match_depth
         THEN [s1 EXCEPT !.heap = Append(@, XMLDictNode(None, None, NoRef, <<>>, <<>>)),
                         !.item = Len(s1.heap) + 1,
                         !.in_ignore = FALSE]
         ELSE s1, LAMBDA s2 :
    IF s2.in_ignore THEN s2
    ELSE Bind(AddNode(s2.heap, s2.item, BuildName(s, full_name), None, <<>>,
                      IF s.xml_attribs THEN attrs_in ELSE <<>>, NoRef, TRUE), LAMBDA r :
         IF r.err # NoError THEN [s2 EXCEPT !.heap = r.heap, !.err = r.err]
         ELSE Bind(GetCurrentNode(r.heap, s2.item), LAMBDA g :
              [s2 EXCEPT !.heap = g.heap,
                         !.stack = Append(@, g.ret),
                         !.item = r.ret,
                         !.need_cdata_separator = FALSE]))))

\* A start_element that takes its new root one level above match_depth.
StartElementMutant(s, full_name, attrs_in) ==
    Bind([s EXCEPT !.processing_started = TRUE,
                   !.path = Append(@, BuildName(s, full_name))], LAMBDA s1 :
    Bind(IF s1.in_ignore /\ Len(s1.path) + 1 >= s1.match_depth
         THEN [s1 EXCEPT !.heap = Append(@, XMLDictNode(None, None, NoRef, <<>>, <<>>)),
                         !.item = Len(s1.heap) + 1,
                         !.in_ignore = FALSE]
         ELSE s1, LAMBDA s2 :
    IF s2.in_ignore THEN s2
    ELSE Bind(AddNode(s2.heap, s2.item, BuildName(s, full_name), None, <<>>,
                      IF s.xml_attribs THEN attrs_in ELSE <<>>, NoRef, TRUE), LAMBDA r :
         IF r.err # NoError THEN [s2 EXCEPT !.heap = r.heap, !.err = r.err]
         ELSE Bind(GetCurrentNode(r.heap, s2.item), LAMBDA g :
              [s2 EXCEPT !.heap = g.heap,
                         !.stack = Append(@, g.ret),
                         !.item = r.ret,
                         !.need_cdata_separator = FALSE]))))

\* A start_element that leaves the ignored levels without a new root.
StartElementKeepRootMutant(s, full_name, attrs_in) ==
    Bind([s EXCEPT !.processing_started = TRUE,
                   !.path = Append(@, BuildName(s, full_name))], LAMBDA s1 :
    Bind(IF s1.in_ignore /\ Len(s1.path) >= s1.match_depth
         THEN [s1 EXCEPT !.in_ignore = FALSE]
         ELSE s1, LAMBDA s2 :
    IF s2.in_ignore THEN s2
    ELSE Bind(AddNode(s2.heap, s2.item, BuildName(s, full_name), None, <<>>,
                      IF s.xml_attribs THEN attrs_in ELSE <<>>, NoRef, TRUE), LAMBDA r :
         IF r.err # NoError THEN [s2 EXCEPT !.heap = r.heap, !.err = r.err]
         ELSE Bind(GetCurrentNode(r.heap, s2.item), LAMBDA g :
              [s2 EXCEPT !.heap = g.heap,
                         !.stack = Append(@, g.ret),
                         !.item = r.ret,
                         !.need_cdata_separator = FALSE]))))

\* start_element
StartElement(s, full_name, attrs_in) ==
    Bind([s EXCEPT !.processing_started = TRUE,
                   !.path = Append(@, BuildName(s, full_name))], LAMBDA s1 :
    Bind(IF s1.in_ignore /\ Len(s1.path) >= s1.match_depth
         THEN [s1 EXCEPT !.heap = Append(@, XMLDictNode(None, None, NoRef, <<>>, <<>>)),
                         !.item = Len(s1.heap) + 1,
                         !.in_ignore = FALSE]
         ELSE s1, LAMBDA s2 :
    IF s2.in_ignore THEN s2
    ELSE Bind(AddNode(s2.heap, s2.item, BuildName(s, full_name), None, <<>>,
                      IF s.xml_attribs THEN attrs_in ELSE <<>>, NoRef, TRUE), LAMBDA r :
         IF r.err # NoError THEN [s2 EXCEPT !.heap = r.heap, !.err = r.err]
         ELSE Bind(GetCurrentNode(r.heap, s2.item), LAMBDA g :
              [s2 EXCEPT !.heap = g.heap,
                         !.stack = Append(@, g.ret),
                         !.item = r.ret,
                         !.need_cdata_separator = FALSE]))))

----------------------------------------------------------------------------
(* _DictSAXHandler with namespaces or strip_namespace given: names are
   sequences of characters until they reach the tree *)

NamespaceSeparator == ":"

DuplicateAttribute == "ValueError: Stripping namespace causes duplicate attribute"

\* t.rfind(x), counted from 1: 0 when x is not in t.
RFind(t, x) ==
    IF \E i \in 1..Len(t) : t[i] = x
    THEN CHOOSE i \in 1..Len(t) : t[i] = x /\ \A j \in (i + 1)..Len(t) : t[j] # x
    ELSE 0

\* An OrderedDict as the sequence of its <<key, value>> items.
HasKey(rv, k) == \E i \in 1..Len(rv) : rv[i][1] = k
KeyIndex(rv, k) == CHOOSE i \in 1..Len(rv) : rv[i][1] = k
DelKey(rv, k) == RemoveAt(rv, KeyIndex(rv, k))
SetKey(rv, k, v) ==
    IF HasKey(rv, k) THEN [rv EXCEPT ![KeyIndex(rv, k)] = <<k, v>>]
    ELSE Append(rv, <<k, v>>)

\* self.namespaces.get(namespace, namespace)
NamespacesGet(namespaces, namespace) ==
    IF HasKey(namespaces, namespace) THEN namespaces[KeyIndex(namespaces, namespace)][2]
    ELSE namespace

\* _build_name with the options opt (namespaces, strip_namespace).
BuildNameWith(opt, full_name) ==
    IF opt.namespaces = <<>> /\ ~opt.strip_namespace THEN full_name
    ELSE IF RFind(full_name, NamespaceSeparator) = 0 THEN full_name
    ELSE Bind(RFind(full_name, NamespaceSeparator), LAMBDA i :
         IF opt.strip_namespace THEN SubSeq(full_name, i + 1, Len(full_name))
         ELSE IF NamespacesGet(opt.namespaces, SubSeq(full_name, 1, i - 1)) = <<>>
         THEN SubSeq(full_name, i + 1, Len(full_name))
         ELSE NamespacesGet(opt.namespaces, SubSeq(full_name, 1, i - 1))
              \o <<NamespaceSeparator>> \o SubSeq(full_name, i + 1, Len(full_name)))

\* k == "xmlns" or k.startswith("xmlns" + self.namespace_separator); the
\* word xmlns is one character of the model.
IsXmlns(k) ==
    \/ k = <<"xmlns">>
    \/ Len(k) >= 2 /\ k[1] = "xmlns" /\ k[2] = NamespaceSeparator

\* The second loop of _attrs_to_dict, over the keys taken before it began.
RECURSIVE StripKeys(_, _, _)
StripKeys(rv, keys, i) ==
    IF i > Len(keys) THEN [rv |-> rv, err |-> NoError]
    ELSE IF RFind(keys[i], NamespaceSeparator) = 0 THEN StripKeys(rv, keys, i + 1)
    ELSE Bind(SubSeq(keys[i], RFind(keys[i], NamespaceSeparator) + 1, Len(keys[i])),
              LAMBDA newkey :
         IF HasKey(rv, newkey) THEN [rv |-> rv, err |-> DuplicateAttribute]
         ELSE StripKeys(DelKey(SetKey(rv, newkey, rv[KeyIndex(rv, keys[i])][2]), keys[i]),
                        keys, i + 1))

\* _attrs_to_dict
AttrsToDict(opt, attrs) ==
    IF ~opt.strip_namespace THEN [rv |-> attrs, err |-> NoError]
    ELSE Bind(SelectSeq(attrs, LAMBDA p : ~IsXmlns(p[1])), LAMBDA rv :
         StripKeys(rv, [i \in 1..Len(rv) |-> rv[i][1]], 1))

\* OrderedDict((self._build_name(key), value) for (key, value) in
\* attrs.items()): a key met again keeps its place and takes the new value.
RECURSIVE RebuiltAttrs(_, _, _, _)
RebuiltAttrs(opt, attrs, i, acc) ==
    IF i > Len(attrs) THEN acc
    ELSE RebuiltAttrs(opt, attrs, i + 1,
                      SetKey(acc, BuildNameWith(opt, attrs[i][1]), attrs[i][2]))

\* The items with their keys as the strings the tree holds.
Items(rv) == [i \in 1..Len(rv) |-> <<Str(rv[i][1]), rv[i][2]>>]

\* start_element with the options opt: the name and the attributes are
\* worked out first, and _attrs_to_dict raises before path is touched.
StartElementWith(s, opt, full_name, attrs) ==
    Bind(AttrsToDict(opt, attrs), LAMBDA a :
    IF a.err # NoError THEN [s EXCEPT !.processing_started = TRUE, !.err = a.err]
    ELSE StartElement(s, Str(BuildNameWith(opt, full_name)),
                      Items(RebuiltAttrs(opt, a.rv, 1, <<>>))))

\* The end of end_element without path.pop().
EndElementTailMutant(s) ==
    IF ~s.in_ignore /\ Len(GetCdata(s.heap, s.item)) > 0
    THEN [s EXCEPT !.need_cdata_separator = TRUE]
    ELSE s

\* A tail that enters the ignore region one level early.
EndElementTailEarlyMutant(s) ==
    LET s1 == [s EXCEPT !.path = SubSeq(@, 1, Len(@) - 1)]
        s2 == IF Len(s1.path) <= s1.match_depth THEN [s1 EXCEPT !.in_ignore = TRUE] ELSE s1
    IN IF ~s2.in_ignore /\ Len(GetCdata(s2.heap, s2.item)) > 0
       THEN [s2 EXCEPT !.need_cdata_separator = TRUE]
       ELSE s2

\* The tail of end_element, from self.path.pop() on.
EndElementTail(s) ==
    LET s1 == [s EXCEPT !.path = SubSeq(@, 1, Len(@) - 1)]
        s2 == IF Len(s1.path) < s1.match_depth THEN [s1 EXCEPT !.in_ignore = TRUE] ELSE s1
    IN IF ~s2.in_ignore /\ Len(GetCdata(s2.heap, s2.item)) > 0
       THEN [s2 EXCEPT !.need_cdata_separator = TRUE]
       ELSE s2

\* An end_element that pops the stack before it checks the matches.
EndElementMutant(s) ==
    IF s.in_ignore THEN EndElementTail(s)
    ELSE Bind(IF s.strip_whitespace THEN StripCdata(s.heap, s.item)
              ELSE Return(s.heap, s.item), LAMBDA r :
         IF r.err # NoError THEN [s EXCEPT !.heap = r.heap, !.err = r.err]
         ELSE IF s.stack = <<>> THEN [s EXCEPT !.heap = r.heap, !.item = r.ret, !.err = IndexError]
         ELSE EndElementTail(
                  CheckGeneratorMatches([s EXCEPT !.heap = r.heap,
                                                  !.item = s.stack[Len(s.stack)],
                                                  !.stack = SubSeq(@, 1, Len(@) - 1)])))

\* end_element
EndElement(s) ==
    IF s.in_ignore THEN EndElementTail(s)
    ELSE Bind(IF s.strip_whitespace THEN StripCdata(s.heap, s.item)
              ELSE Return(s.heap, s.item), LAMBDA r :
         IF r.err # NoError THEN [s EXCEPT !.heap = r.heap, !.err = r.err]
         ELSE Bind(CheckGeneratorMatches([s EXCEPT !.heap = r.heap, !.item = r.ret]),
                   LAMBDA s2 :
              IF s2.stack = <<>> THEN [s2 EXCEPT !.err = IndexError]
              ELSE EndElementTail([s2 EXCEPT !.item = s2.stack[Len(s2.stack)],
                                             !.stack = SubSeq(@, 1, Len(@) - 1)])))

\* A characters that keeps the node it had as the current node.
CharactersMutant(s, data_in) ==
    Bind([s EXCEPT !.processing_started = TRUE], LAMBDA s1 :
    IF s1.in_ignore THEN s1
    ELSE Bind(AppendCdata(s1.heap, s1.item,
                          IF s1.need_cdata_separator
                          THEN s1.cdata_separator \o data_in ELSE data_in), LAMBDA r :
         IF r.err # NoError
         THEN [s1 EXCEPT !.heap = r.heap, !.need_cdata_separator = FALSE, !.err = r.err]
         ELSE [s1 EXCEPT !.heap = r.heap, !.need_cdata_separator = FALSE]))

\* characters
Characters(s, data_in) ==
    Bind([s EXCEPT !.processing_started = TRUE], LAMBDA s1 :
    IF s1.in_ignore THEN s1
    ELSE Bind(AppendCdata(s1.heap, s1.item,
                          IF s1.need_cdata_separator
                          THEN s1.cdata_separator \o data_in ELSE data_in), LAMBDA r :
         IF r.err # NoError
         THEN [s1 EXCEPT !.heap = r.heap, !.need_cdata_separator = FALSE, !.err = r.err]
         ELSE [s1 EXCEPT !.heap = r.heap, !.need_cdata_separator = FALSE, !.item = r.ret]))

\* end_document
\* The same without the last look at the matches.
EndDocumentMutant(s) ==
    IF Len(s.path) # 0 THEN [s EXCEPT !.err = AssertionError]
    ELSE s
EndDocument(s) ==
    IF Len(s.path) # 0 THEN [s EXCEPT !.err = AssertionError]
    ELSE CheckGeneratorMatches(s)

\* pop_matches: the handler afterwards (self.matches = []) and the list
\* returned (rv = self.matches).
PopMatchesMutant(s) == s
PopMatches(s) == [s EXCEPT !.matches = <<>>]

PoppedMutant(s) == IF s.matches = <<>> THEN <<>> ELSE <<s.matches[Len(s.matches)]>>
Popped(s) == s.matches

----------------------------------------------------------------------------
(* State *)

VARIABLES
    heap,                  \* the node objects
    \* _DictSAXHandler fields
    path, stack, matches, root, item,
    xml_attribs, strip_whitespace, match_tests, match_depth, in_ignore,
    cdata_separator, need_cdata_separator, processing_started,
    error,                 \* the exception that ended the run, or NoError
    \* the tokenizer (expat): the open elements and its phase
    open, phase,
    \* Parser._parse_generator: its position, at_eof and the list it is yielding
    pc, at_eof, rv,
    \* the caller: the tuples received from the generator, the last node call
    yielded, call,
    \* history: the events delivered to the handler, the matches recorded
    events, emitted,
    \* a Parser object called more than once: its own fields, and what the
    \* caller holds of each call (the generator it returned, the results)
    parser, calls

handlerVars == <<path, stack, matches, root, item, xml_attribs, strip_whitespace,
                 match_tests, match_depth, in_ignore, cdata_separator,
                 need_cdata_separator, processing_started>>
tokenVars == <<open, phase>>
genVars == <<pc, at_eof, rv, yielded>>
parserVars == <<parser, calls>>
histVars == <<events, emitted>>
vars == <<heap, handlerVars, error, tokenVars, genVars, call, histVars, parserVars>>

\* The handler object as a record, and its assignment to the variables.
Self ==
    [heap |-> heap, path |-> path, stack |-> stack, matches |-> matches,
     root |-> root, item |-> item, xml_attribs |-> xml_attribs,
     strip_whitespace |-> strip_whitespace, match_tests |-> match_tests,
     match_depth |-> match_depth, in_ignore |-> in_ignore,
     cdata_separator |-> cdata_separator,
     need_cdata_separator |-> need_cdata_separator,
     processing_started |-> processing_started, err |-> error]

Becomes(s) ==
    /\ heap' = s.heap /\ path' = s.path /\ stack' = s.stack
    /\ matches' = s.matches /\ root' = s.root /\ item' = s.item
    /\ xml_attribs' = s.xml_attribs /\ strip_whitespace' = s.strip_whitespace
    /\ match_tests' = s.match_tests /\ match_depth' = s.match_depth
    /\ in_ignore' = s.in_ignore /\ cdata_separator' = s.cdata_separator
    /\ need_cdata_separator' = s.need_cdata_separator
    /\ processing_started' = s.processing_started
    /\ error' = s.err

\* The matches a handler step recorded, stamped with the number of the event
\* that recorded them.
Recorded(s, at) ==
    [i \in 1..(Len(s.matches) - Len(matches)) |->
        [path |-> s.matches[Len(matches) + i].path,
         match_string |-> s.matches[Len(matches) + i].match_string,
         node |-> s.matches[Len(matches) + i].node,
         at |-> at,
         content |-> Content(s.heap, s.matches[Len(matches) + i].node)]]

----------------------------------------------------------------------------
(* Bounds and input alphabets *)

MaxEvents == 6
MaxTreeEvents == 7
MaxDepth == 3
MaxNodes == 4
MaxText == 2
MaxTextEvents == 8
MaxEmitEvents == 9
MaxStripEvents == 6
MaxCalls == 2
MaxRekeyTree == 5
MaxRekeyNodes == 6
MaxLinkEvents == 6
MaxLinkNodes == 8
MaxPatternLen == 5
MaxKeyNodes == 7
MaxNamespaceEvents == 4
MaxEmitDepth == 2
MaxBuildNodes == 6

Names == {"a", "b"}
NoAttrs == <<>>

\* Full-tree runs: the attribute lists and character data delivered.
TreeAttrs == {NoAttrs, <<<<"x", "1">>>>}
TreeData == {<<"1">>, <<"2">>}

\* Mixed-content runs: the character data delivered and the separators
\* configured.
TextData == {<<"1">>, <<" ">>}
Separators == {<<>>, <<"-">>}

\* Calls on nodes: the texts and the attribute a caller passes.
AddTexts == {<<"1">>, <<" ">>}
SetTexts == {<<>>, <<"1">>}
AppendTexts == {<<"1">>}
BuildTexts == {<<"1">>}
AttrName == "x"
AttrValue == "1"

\* The generator arguments tried: match strings over the element names.
Slash == "/"
MatchStrings ==
    {<<Slash>>, <<"b">>, <<"a", Slash, "b">>, <<Slash, "a", Slash, "b">>,
     <<Slash, "a">>, <<"b", Slash, "b", Slash>>}
Generators ==
    {<<m>> : m \in MatchStrings} \cup
    {<<"b">>, <<"a", Slash, "b">>} \X {<<Slash, "a", Slash, "b">>, <<"b">>, <<Slash, "a">>}

----------------------------------------------------------------------------
(* Initial states *)

NoCall == [op |-> "none", node |-> NoRef, arg |-> <<>>, err |-> NoError,
           ret |-> NoRef, pre |-> <<>>, out |-> <<>>]

\* The variables hold the handler s.
StartsAs(s) ==
    /\ heap = s.heap /\ path = s.path /\ stack = s.stack
    /\ matches = s.matches /\ root = s.root /\ item = s.item
    /\ xml_attribs = s.xml_attribs /\ strip_whitespace = s.strip_whitespace
    /\ match_tests = s.match_tests /\ match_depth = s.match_depth
    /\ in_ignore = s.in_ignore /\ cdata_separator = s.cdata_separator
    /\ need_cdata_separator = s.need_cdata_separator
    /\ processing_started = s.processing_started
    /\ error = s.err

\* Parser.__call__ up to the parsing: a new handler (_make_handler) and a
\* new expat parser (_make_parser).
ParserCall(generator, strip, separator) ==
    /\ StartsAs(DictSAXHandler(<<>>, TRUE, strip, separator, generator))
    /\ open = <<>> /\ phase = "prolog"
    /\ pc = "start" /\ at_eof = FALSE /\ rv = <<>>
    /\ yielded = <<>> /\ call = NoCall
    /\ parser = None /\ calls = <<>>
    /\ events = <<>> /\ emitted = <<>>

\* Generator mode: Parser(generator=g)(xml_input).
Init == \E g \in Generators : ParserCall(g, TRUE, <<>>)

----------------------------------------------------------------------------
(* The tokenizer's callbacks.  expat delivers the events of a well-formed   *)
(* document: one root element, properly nested, character data only inside *)
(* an element.                                                             *)

\* An event of the history: what was delivered, the names of the elements
\* open when it was delivered and, for an end-element, the number of the
\* start-element event it closes.
Event(type, name, attrs, data) ==
    [type |-> type, name |-> name, attrs |-> attrs, data |-> data,
     path |-> [i \in 1..Len(open) |-> open[i].name],
     start |-> IF type = "end" THEN open[Len(open)].at ELSE 0,
     node |-> NoRef]

\* The node end_element holds as self.item when it checks the matches: the
\* node of the element that ends (NoRef while the handler ignores the level).
ClosedNode(s) ==
    IF s.in_ignore THEN NoRef
    ELSE IF s.strip_whitespace THEN StripCdata(s.heap, s.item).ret
    ELSE s.item

CanStart(limit) ==
    /\ error = NoError
    /\ Len(events) < limit
    /\ \/ phase = "prolog"
       \/ phase = "content" /\ Len(open) < MaxDepth

\* The handler is s after the callback; its new matches enter the history.
Handled(s) ==
    /\ Becomes(s)
    /\ emitted' = emitted \o Recorded(s, Len(events) + 1)

\* StartElementHandler
TokStart(name, attrs, limit) ==
    /\ CanStart(limit)
    /\ Handled(StartElement(Self, name, attrs))
    /\ events' = Append(events, Event("start", name, attrs, <<>>))
    /\ open' = Append(open, [name |-> name, at |-> Len(events) + 1])
    /\ phase' = "content"

\* CharacterDataHandler
TokChars(data, limit) ==
    /\ error = NoError
    /\ Len(events) < limit
    /\ phase = "content"
    /\ Handled(Characters(Self, data))
    /\ events' = Append(events, Event("chars", open[Len(open)].name, NoAttrs, data))
    /\ UNCHANGED <<open, phase>>

\* EndElementHandler
TokEnd ==
    /\ error = NoError
    /\ phase = "content"
    /\ Handled(EndElement(Self))
    /\ events' = Append(events, [Event("end", open[Len(open)].name, NoAttrs, <<>>)
                                     EXCEPT !.node = ClosedNode(Self)])
    /\ open' = SubSeq(open, 1, Len(open) - 1)
    /\ phase' = IF Len(open) = 1 THEN "epilog" ELSE "content"

----------------------------------------------------------------------------
(* Parser._parse_generator *)

\* buf = io_obj.read(parsing_increment) returns data: Parse(buf, False)
\* begins.  The generator is at its start or was suspended at the last
\* yield of the previous chunk.
GenRead ==
    /\ error = NoError
    /\ pc = "start" \/ (pc = "yield" /\ rv = <<>> /\ ~at_eof)
    /\ phase # "eof"
    /\ pc' = "parse"
    /\ UNCHANGED <<heap, handlerVars, error, tokenVars, at_eof, rv, yielded, call, parserVars, histVars>>

\* The callbacks of one Parse(buf, False) call.
GenParse ==
    /\ pc = "parse"
    /\ \/ \E n \in Names : TokStart(n, NoAttrs, MaxEvents)
       \/ TokChars(<<"1">>, MaxEvents)
       \/ TokEnd
    /\ UNCHANGED <<pc, at_eof, rv, yielded, call, parserVars>>

\* Parse(buf, False) returns; not at_eof; rv = pop_matches().
GenChunkEnd ==
    /\ error = NoError
    /\ pc = "parse"
    /\ rv' = Popped(Self)
    /\ Becomes(PopMatches(Self))
    /\ pc' = "yield"
    /\ UNCHANGED <<tokenVars, at_eof, yielded, call, parserVars, histVars>>

\* The read returns no data: at_eof, Parse(buf, True) on a complete
\* document, end_document(), rv = pop_matches().
GenEOF ==
    /\ error = NoError
    /\ pc = "start" \/ (pc = "yield" /\ rv = <<>> /\ ~at_eof)
    /\ phase = "epilog"
    /\ at_eof' = TRUE
    /\ LET s == EndDocument(Self)
       IN /\ Becomes(PopMatches(s))
          /\ rv' = Popped(s)
          /\ emitted' = emitted \o Recorded(s, Len(events) + 1)
    /\ events' = Append(events, Event("end_document", None, NoAttrs, <<>>))
    /\ phase' = "eof"
    /\ pc' = "yield"
    /\ UNCHANGED <<open, yielded, call, parserVars>>

\* yield rv: the caller receives the next tuple of the drained list.
GenYield ==
    /\ pc = "yield"
    /\ rv # <<>>
    /\ yielded' = Append(yielded, [path |-> Head(rv).path,
                                   match_string |-> Head(rv).match_string,
                                   node |-> Head(rv).node,
                                   snap |-> heap[Head(rv).node],
                                   content |-> Content(heap, Head(rv).node)])
    /\ rv' = Tail(rv)
    /\ UNCHANGED <<heap, handlerVars, error, tokenVars, pc, at_eof, call, parserVars, histVars>>

\* The loop ends after the drained list of the at_eof pass: StopIteration.
GenDone ==
    /\ pc = "yield"
    /\ rv = <<>>
    /\ at_eof
    /\ pc' = "done"
    /\ UNCHANGED <<heap, handlerVars, error, tokenVars, at_eof, rv, yielded, call, parserVars, histVars>>

Next == GenRead \/ GenParse \/ GenChunkEnd \/ GenEOF \/ GenYield \/ GenDone

Spec == Init /\ [][Next]_vars

----------------------------------------------------------------------------
(* Parser.__call__ without a generator: the whole tree *)

InitTree == \E strip \in BOOLEAN : ParserCall(<<>>, strip, <<>>)

\* The callbacks of Parse(xml_input, True).
TreeParse ==
    /\ pc = "start"
    /\ \/ \E n \in Names, a \in TreeAttrs : TokStart(n, a, MaxTreeEvents)
       \/ \E d \in TreeData : TokChars(d, MaxTreeEvents)
       \/ TokEnd
    /\ UNCHANGED <<pc, at_eof, rv, yielded, call, parserVars>>

\* Parse returns on a complete document: return self._handler.item.
TreeReturn ==
    /\ error = NoError
    /\ pc = "start"
    /\ phase = "epilog"
    /\ pc' = "done"
    /\ phase' = "eof"
    /\ call' = [NoCall EXCEPT !.op = "parse", !.ret = item]
    /\ UNCHANGED <<heap, handlerVars, error, open, at_eof, rv, yielded, histVars, parserVars>>

NextTree == TreeParse \/ TreeReturn

SpecTree == InitTree /\ [][NextTree]_vars

----------------------------------------------------------------------------
(* Parser(strip_whitespace=False, cdata_separator=sep)(xml_input): the      *)
(* whole tree of a document with text and elements intermixed              *)

InitText == \E sep \in Separators : ParserCall(<<>>, FALSE, sep)

\* The callbacks of Parse(xml_input, True).
TextParse ==
    /\ pc = "start"
    /\ \/ \E n \in Names : TokStart(n, NoAttrs, MaxTextEvents)
       \/ \E d \in TextData : TokChars(d, MaxTextEvents)
       \/ TokEnd
    /\ UNCHANGED <<pc, at_eof, rv, yielded, call, parserVars>>

NextText == TextParse \/ TreeReturn

SpecText == InitText /\ [][NextText]_vars

----------------------------------------------------------------------------
(* The document as the event history tells it *)

\* The live path at event e: the elements open when the event was delivered;
\* for an end-element event it still includes the closing element.
LivePath(e) == events[e].path

\* The matching rule of the specification.
Anchored(m, p) == Len(p) = m.depth /\ p = m.elements
Suffix(m, p) == Len(p) >= m.depth /\ SubSeq(p, Len(p) - m.depth + 1, Len(p)) = m.elements
PatternMatches(m, p) == IF m.rooted THEN Anchored(m, p) ELSE Suffix(m, p)

MatchingPatterns(p) == {i \in 1..Len(match_tests) : PatternMatches(match_tests[i], p)}

EmittedAt(e) == {k \in 1..Len(emitted) : emitted[k].at = e}

EndEvents == {e \in 1..Len(events) : events[e].type = "end"}

\* The (path, pattern, node) tuples of a list of matches.
Tuples(ms) ==
    [i \in 1..Len(ms) |->
        [path |-> ms[i].path, match_string |-> ms[i].match_string, node |-> ms[i].node]]

----------------------------------------------------------------------------
(* Claims about matching *)

\* C1: at every end-element event exactly one match is recorded when some
\* configured pattern matches the live path (anchored: same length and equal;
\* suffix: at least as long and the last depth entries equal), and none when
\* no pattern matches; the recorded path is that live path.
C1_MatchIffPattern ==
    \A e \in EndEvents :
        /\ Cardinality(EmittedAt(e)) = IF MatchingPatterns(LivePath(e)) # {} THEN 1 ELSE 0
        /\ \A k \in EmittedAt(e) : emitted[k].path = MatchPath(LivePath(e))

\* An end-element of an element deeper than the depth of the suffix pattern
\* that matched it, and an end-element that no pattern matched.
C1_Witness ==
    /\ \E e \in EndEvents :
          /\ EmittedAt(e) # {}
          /\ \E i \in MatchingPatterns(LivePath(e)) :
                ~match_tests[i].rooted /\ match_tests[i].depth < Len(LivePath(e))
    /\ \E e \in EndEvents : EmittedAt(e) = {} /\ match_tests # <<>>

\* C2: for every element at most one tuple is recorded, and it names the
\* first pattern of the configured list that matches the element.
C2_FirstPatternWins ==
    \A e \in 1..Len(events) :
        /\ Cardinality(EmittedAt(e)) <= 1
        /\ \A k \in EmittedAt(e) :
              /\ MatchingPatterns(LivePath(e)) # {}
              /\ emitted[k].match_string =
                    match_tests[Least(MatchingPatterns(LivePath(e)))].match_string

\* An element that two configured patterns match, the second one being a
\* different match string.
C2_Witness ==
    \E e \in EndEvents :
        /\ EmittedAt(e) # {}
        /\ Cardinality(MatchingPatterns(LivePath(e))) = 2
        /\ match_tests[1].match_string # match_tests[2].match_string

\* The start-element event that opened the element closed by end-element e.
StartOf(e) == events[e].start

\* C7: matches are recorded in document order, each at the end-element event
\* of its own element (the root's at end-of-document), so after every event
\* of the element's descendants; the node recorded is that element's node and
\* what is below it never changes afterwards; a matched descendant precedes
\* its matched ancestor in the list.
C7_DocumentOrder ==
    /\ \A k \in 1..Len(emitted) :
          /\ \A j \in 1..(k - 1) : emitted[j].at < emitted[k].at
          /\ events[emitted[k].at].type \in {"end", "end_document"}
          /\ events[emitted[k].at].type = "end" =>
                heap[emitted[k].node].tag = events[emitted[k].at].name
          /\ events[emitted[k].at].type = "end_document" =>
                emitted[k].node = root /\ LivePath(emitted[k].at) = <<>>
          /\ Content(heap, emitted[k].node) = emitted[k].content
    /\ \A k1, k2 \in 1..Len(emitted) :
          (/\ events[emitted[k1].at].type = "end"
           /\ events[emitted[k2].at].type = "end"
           /\ StartOf(emitted[k2].at) < StartOf(emitted[k1].at)
           /\ emitted[k1].at < emitted[k2].at) => k1 < k2

\* A matched element with a matched descendant, both recorded, and events
\* delivered after them.
C7_Witness ==
    \E k1, k2 \in 1..Len(emitted) :
        /\ events[emitted[k1].at].type = "end"
        /\ events[emitted[k2].at].type = "end"
        /\ StartOf(emitted[k2].at) < StartOf(emitted[k1].at)
        /\ emitted[k1].at < emitted[k2].at
        /\ heap[emitted[k1].node].text # <<>>
        /\ Len(events) > emitted[k2].at

----------------------------------------------------------------------------
(* The same events given to a handler in one piece *)

\* The handler as Parser._make_handler builds it for the present options.
FreshHandler ==
    [Self EXCEPT !.heap = <<XMLDictNode(None, None, NoRef, <<>>, <<>>)>>,
                 !.path = <<>>, !.stack = <<>>, !.matches = <<>>,
                 !.root = 1, !.item = 1,
                 !.in_ignore = (match_depth > 0),
                 !.need_cdata_separator = FALSE,
                 !.processing_started = FALSE,
                 !.err = NoError]

\* One callback.
Deliver(s, e) ==
    IF s.err # NoError THEN s
    ELSE IF e.type = "start" THEN StartElement(s, e.name, e.attrs)
    ELSE IF e.type = "chars" THEN Characters(s, e.data)
    ELSE IF e.type = "end" THEN EndElement(s)
    ELSE EndDocument(s)

\* Parse(xml_input, True) on the whole input: every callback in turn, no
\* pop_matches in between.
RECURSIVE ParseWhole(_, _, _)
ParseWhole(s, ev, i) ==
    IF i > Len(ev) THEN s ELSE ParseWhole(Deliver(s, ev[i]), ev, i + 1)

----------------------------------------------------------------------------
(* Claims about the generator *)

\* The generator is about to read: at its start, or suspended after the last
\* tuple of a drained list with the input not yet at its end.
AboutToRead == pc = "start" \/ (pc = "yield" /\ rv = <<>> /\ ~at_eof)

\* C8: whenever a chunk is about to be read the handler's match cache is
\* empty and every match recorded so far has been handed to the caller; while
\* a chunk is parsed the cache holds only matches of this chunk.
C8_DrainedBeforeNextChunk ==
    /\ AboutToRead => matches = <<>> /\ Tuples(yielded) = Tuples(emitted)
    /\ pc = "parse" => rv = <<>> /\ Tuples(yielded) \o matches = Tuples(emitted)

\* The caller holds matches, the generator is suspended before a read and
\* part of the document has not been delivered.
C8_Witness ==
    /\ AboutToRead
    /\ Len(yielded) >= 2
    /\ phase = "content"

\* C9: whatever the chunking, the tuples handed to the caller, followed by
\* those drained and those still cached, are the matches a handler records
\* when it is given the same events in one piece, each once and in the same
\* order; and what the caller sees below a yielded node is what it sees
\* there after the one-piece run.
C9_ChunkingIndependent ==
    LET whole == ParseWhole(FreshHandler, events, 1)
    IN /\ Tuples(yielded) \o rv \o matches = whole.matches
       /\ \A i \in 1..Len(yielded) :
             /\ i <= Len(whole.matches)
             /\ yielded[i].content = Content(whole.heap, whole.matches[i].node)

\* Two matches handed to the caller from an earlier chunk, another one
\* recorded in the chunk being parsed, and one more at the end of input.
C9_Witness ==
    \/ pc = "parse" /\ Len(yielded) >= 1 /\ matches # <<>>
    \/ pc = "done" /\ Len(yielded) >= 3

\* The nodes reachable from node n through container slots.
RECURSIVE Below(_, _)
Below(H, n) ==
    {n} \cup UNION {Below(H, H[n].vals[i]) : i \in 1..Len(H[n].vals)}

\* The nodes the handler can reach from its current node, its ancestor stack
\* and its root.
HandlerReach ==
    Below(heap, item) \cup Below(heap, root)
        \cup UNION {Below(heap, stack[i]) : i \in 1..Len(stack)}

\* C10: a node handed to the caller is not reachable from the handler's
\* current node, ancestor stack or root, and no later handler event changes
\* it (text, entries, attributes, parent, replacement).
C10_NoReferenceRetained ==
    \A i \in 1..Len(yielded) :
        /\ yielded[i].node \notin HandlerReach
        /\ heap[yielded[i].node] = yielded[i].snap

\* C10, second part alone: no later handler event changes a node handed to
\* the caller.
C10_DrainedNodeUnchanged ==
    \A i \in 1..Len(yielded) : heap[yielded[i].node] = yielded[i].snap

----------------------------------------------------------------------------
(* The elements of the document, read off the event history *)

\* The completed elements, each named by its start-element event.
EndOf(b) == CHOOSE e \in 1..Len(events) : events[e].type = "end" /\ events[e].start = b
Completed == {b \in 1..Len(events) : \E e \in EndEvents : events[e].start = b}

\* The events strictly inside element b that belong to b itself: delivered
\* while b was the innermost open element.
Inside(b, type) ==
    {j \in (b + 1)..(EndOf(b) - 1) :
        /\ events[j].type = type
        /\ Len(events[j].path) = Len(events[b].path) + 1}

\* A set of event numbers as an increasing sequence.
RECURSIVE InOrder(_)
InOrder(S) == IF S = {} THEN <<>> ELSE <<Least(S)>> \o InOrder(S \ {Least(S)})

ChildrenOf(b) == InOrder(Inside(b, "start"))
ChildrenNamed(b, name) == InOrder({c \in Inside(b, "start") : events[c].name = name})

RECURSIVE ConcatData(_)
ConcatData(js) == IF js = <<>> THEN <<>> ELSE events[Head(js)].data \o ConcatData(Tail(js))

\* The element's own character data, in document order.
OwnData(b) == ConcatData(InOrder(Inside(b, "chars")))
OwnText(b) == IF strip_whitespace THEN Strip(OwnData(b)) ELSE OwnData(b)

\* The child names of b in first-seen order.
RECURSIVE FirstSeen(_, _)
FirstSeen(cs, seen) ==
    IF cs = <<>> THEN seen
    ELSE FirstSeen(Tail(cs),
                   IF IndexOf(seen, events[Head(cs)].name) # 0 THEN seen
                   ELSE Append(seen, events[Head(cs)].name))
ChildNames(b) == FirstSeen(ChildrenOf(b), <<>>)

\* Node n is the node built for element b: it carries the element's tag, own
\* text and attributes, and each of its entries is the node built for the
\* child (the Sequence of the nodes built for the same-name children).
RECURSIVE BuiltFor(_, _)
BuiltFor(n, b) ==
    /\ heap[n].kind = IF ChildrenOf(b) = <<>> THEN "cdata" ELSE "dict"
    /\ heap[n].tag = events[b].name
    /\ heap[n].text = OwnText(b)
    /\ heap[n].xml_attrs = events[b].attrs
    /\ heap[n].keys = ChildNames(b)
    /\ \A i \in 1..Len(heap[n].keys) :
          LET grp == ChildrenNamed(b, heap[n].keys[i])
              slot == heap[n].vals[i]
          IN IF Len(grp) = 1 THEN BuiltFor(slot, grp[1])
             ELSE /\ heap[slot].kind = "list"
                  /\ Len(heap[slot].vals) = Len(grp)
                  /\ \A j \in 1..Len(grp) : BuiltFor(heap[slot].vals[j], grp[j])

\* Below node n, built for element b, every group of two or more same-name
\* children is one Sequence whose i-th member is the node built for the i-th
\* of them.
RECURSIVE SequencesBuilt(_, _)
SequencesBuilt(n, b) ==
    \A i \in 1..Len(ChildNames(b)) :
        LET grp == ChildrenNamed(b, ChildNames(b)[i])
            k == IndexOf(heap[n].keys, ChildNames(b)[i])
        IN /\ k # 0
           /\ IF Len(grp) = 1 THEN SequencesBuilt(heap[n].vals[k], grp[1])
              ELSE /\ heap[heap[n].vals[k]].kind = "list"
                   /\ Len(heap[heap[n].vals[k]].vals) = Len(grp)
                   /\ \A j \in 1..Len(grp) : BuiltFor(heap[heap[n].vals[k]].vals[j], grp[j])

----------------------------------------------------------------------------
(* Claims about the tree *)

\* C3: in the tree a full-tree parse returns, n >= 2 same-name siblings are
\* one Sequence of length n under that key whose i-th member is the node
\* built for the i-th of them in document order, with that element's own
\* text, attributes and children.
C3_SiblingsInDocumentOrder ==
    (pc = "done" /\ call.op = "parse") =>
        /\ heap[call.ret].keys = <<events[1].name>>
        /\ SequencesBuilt(heap[call.ret].vals[1], 1)

\* The children of b that start between events j1 and j2.
ChildrenBetween(b, j1, j2) == {c \in Inside(b, "start") : j1 < c /\ c < j2}

\* The character runs js of element b joined: the separator stands between
\* two consecutive runs exactly when a child element lies between them.
RECURSIVE JoinRuns(_, _)
JoinRuns(b, js) ==
    IF js = <<>> THEN <<>>
    ELSE IF Len(js) = 1 THEN events[js[1]].data
    ELSE events[js[1]].data
             \o (IF ChildrenBetween(b, js[1], js[2]) # {} THEN cdata_separator ELSE <<>>)
             \o JoinRuns(b, Tail(js))

SeparatedText(b) == JoinRuns(b, InOrder(Inside(b, "chars")))

\* C11: with strip_whitespace off, the text of the node of every ended
\* element is the element's own character runs in document order, with the
\* separator once between two consecutive runs that have a child element
\* between them and nowhere else.
C11_SeparatorBetweenRuns ==
    ~strip_whitespace =>
        \A e \in EndEvents :
            events[e].node # NoRef =>
                heap[events[e].node].text = SeparatedText(events[e].start)

----------------------------------------------------------------------------
(* A caller working on nodes: it starts from an empty XMLDictNode(), keeps  *)
(* every reference it was ever handed, current or stale, and calls the     *)
(* node methods on them.                                                   *)

InitNode ==
    /\ StartsAs(DictSAXHandler(<<>>, TRUE, TRUE, <<>>, <<>>))
    /\ open = <<>> /\ phase = "eof"
    /\ pc = "caller" /\ at_eof = FALSE /\ rv = <<>>
    /\ yielded = <<>> /\ call = NoCall
    /\ parser = None /\ calls = <<>>
    /\ events = <<>> /\ emitted = <<>>

Nodes == 1..Len(heap)

\* The text and attribute calls are made on leaves, current or stale.
Leaves == {n \in Nodes : heap[n].kind = "cdata"}

\* The method returns (or raises) r: the heap is what it left behind, and
\* the call is remembered with the heap it started from.
Called(op, n, arg, r) ==
    /\ pc = "caller"
    /\ heap' = r.heap
    /\ call' = [op |-> op, node |-> n, arg |-> arg, err |-> r.err,
                ret |-> r.ret, pre |-> heap, out |-> <<>>]
    /\ UNCHANGED <<handlerVars, error, tokenVars, genVars, histVars, parserVars>>

CallAddNode ==
    \E n \in Nodes, tag \in Names, text \in AddTexts :
        /\ Len(heap) + 2 <= MaxNodes
        /\ Called("add_node", n, text, AddNode(heap, n, tag, None, text, NoAttrs, NoRef, TRUE))

CallSetCdata ==
    \E n \in Leaves, text \in SetTexts :
        /\ Len(heap) < MaxNodes
        /\ Called("set_cdata", n, text, SetCdata(heap, n, text))

CallAppendCdata ==
    \E n \in Leaves, text \in AppendTexts :
        /\ Len(heap) < MaxNodes
        /\ Len(heap[n].text) + Len(text) <= MaxText
        /\ Called("append_cdata", n, text, AppendCdata(heap, n, text))

CallStripCdata ==
    \E n \in Leaves :
        /\ Len(heap) < MaxNodes
        /\ Called("strip_cdata", n, <<>>, StripCdata(heap, n))

CallSetXmlAttr ==
    \E n \in Leaves :
        Called("set_xml_attr", n, <<>>, SetXmlAttr(heap, n, AttrName, AttrValue))

CallDeleteXmlAttr ==
    \E n \in Leaves :
        Called("delete_xml_attr", n, <<>>, DeleteXmlAttr(heap, n, AttrName))

\* node._replace_node(None): the node removes itself from its parent.
CallReplaceNode ==
    \E n \in Nodes :
        Called("_replace_node", n, <<>>, ReplaceNode(heap, n, NoRef))

CallGetCurrentNode ==
    \E n \in Nodes :
        Called("get_current_node", n, <<>>, GetCurrentNode(heap, n))

NextNode ==
    \/ CallAddNode \/ CallSetCdata \/ CallAppendCdata \/ CallStripCdata
    \/ CallSetXmlAttr \/ CallDeleteXmlAttr \/ CallReplaceNode
    \/ CallGetCurrentNode

SpecNode == InitNode /\ [][NextNode]_vars

----------------------------------------------------------------------------
(* A caller building a tree by hand: it starts from an empty XMLDictNode(), *)
(* constructs leaves of its own, adds children to any node it holds, with  *)
(* or without a new_node argument that is no node, sets texts and removes  *)
(* nodes.                                                                  *)

\* XMLCDATANode(text, tag=tag): a leaf without a parent.
BuildNewLeaf ==
    \E tag \in Names, text \in BuildTexts :
        /\ Len(heap) < MaxBuildNodes
        /\ \A n \in Nodes : heap[n].parent # NoRef \/ heap[n].kind # "cdata"
        /\ Called("XMLCDATANode", NoRef, text,
                  Return(Append(heap, XMLCDATANode(text, tag, None, NoRef, NoAttrs)),
                         Len(heap) + 1))

\* node.add_node(tag, text=text) and node.add_node(tag, new_node=<no node>)
BuildAddNode ==
    \E n \in Nodes, tag \in Names, text \in BuildTexts, attrs \in TreeAttrs,
       new_node \in {NoRef, NotANode} :
        /\ Len(heap) + 2 <= MaxBuildNodes
        /\ Called("add_node", n, <<tag, new_node>>,
                  AddNode(heap, n, tag, None, text, attrs, new_node, TRUE))

\* The text calls are made on the leaves the caller constructed itself.
OwnLeaves == {n \in Leaves : heap[n].parent = NoRef}

\* leaf.set_cdata(text)
BuildSetCdata ==
    \E n \in OwnLeaves, text \in BuildTexts :
        /\ Len(heap) < MaxBuildNodes
        /\ Called("set_cdata", n, text, SetCdata(heap, n, text))

\* leaf.append_cdata(text)
BuildAppendCdata ==
    \E n \in OwnLeaves, text \in BuildTexts :
        /\ Len(heap) < MaxBuildNodes
        /\ Called("append_cdata", n, text, AppendCdata(heap, n, text))

\* leaf.strip_cdata()
BuildStripCdata ==
    \E n \in OwnLeaves :
        /\ Len(heap) < MaxBuildNodes
        /\ Called("strip_cdata", n, <<>>, StripCdata(heap, n))

\* node._replace_node(None)
BuildRemove ==
    \E n \in Nodes :
        Called("_replace_node", n, <<>>, ReplaceNode(heap, n, NoRef))

NextBuild ==
    \/ BuildNewLeaf \/ BuildAddNode \/ BuildSetCdata \/ BuildAppendCdata
    \/ BuildStripCdata \/ BuildRemove

SpecBuild == InitNode /\ [][NextBuild]_vars

----------------------------------------------------------------------------
(* Claims about node calls *)

Mutators ==
    {"add_node", "set_cdata", "append_cdata", "strip_cdata", "set_xml_attr",
     "delete_xml_attr", "_replace_node"}

\* Node n is a leaf nobody has replaced, sitting in its parent dictionary
\* under its own key.
CurrentLeafInMapping(H, n) ==
    /\ H[n].kind = "cdata"
    /\ H[n].repl = NoRef
    /\ H[n].parent # NoRef
    /\ H[H[n].parent].kind = "dict"
    /\ IndexOf(H[H[n].parent].keys, H[n].key) # 0
    /\ H[H[n].parent].vals[IndexOf(H[H[n].parent].keys, H[n].key)] = n

\* The text a text call asks for.
AskedText(c) ==
    IF c.op = "set_cdata" THEN c.arg ELSE c.pre[c.node].text \o c.arg

\* C4: set_cdata and append_cdata on a current leaf held in a dictionary make
\* a new leaf with the new text and the old leaf's tag, key, attributes and
\* parent; the dictionary's slot for the key then holds the new leaf, the old
\* leaf is stale with get_current_node() the new leaf, and the old leaf's
\* text is what it was.
C4_SetTextReplacesLeaf ==
    (/\ call.op \in {"set_cdata", "append_cdata"}
     /\ CurrentLeafInMapping(call.pre, call.node)) =>
        LET old == call.node
            new == call.ret
            was == call.pre[old]
            p == was.parent
        IN /\ call.err = NoError
           /\ new \notin 1..Len(call.pre)
           /\ heap[new] = XMLCDATANode(AskedText(call), was.tag, was.key, p, was.xml_attrs)
           /\ heap[p].keys = call.pre[p].keys
           /\ heap[p].vals[IndexOf(heap[p].keys, was.key)] = new
           /\ heap[old].repl = new
           /\ GetCurrentNode(heap, old).ret = new
           /\ heap[old] = [was EXCEPT !.repl = new]

C4_Witness ==
    /\ call.op = "append_cdata"
    /\ CurrentLeafInMapping(call.pre, call.node)
    /\ call.pre[call.node].xml_attrs # <<>>
    /\ call.pre[call.node].text # <<>>
    /\ call.arg # <<>>
    /\ call.err = NoError

\* C5: a mutating call on a node whose replacement reference is set fails
\* with the stale-node error and leaves every node as it was, whatever the
\* replacement is.
C5_StaleMutationFails ==
    (/\ call.op \in Mutators
     /\ call.pre[call.node].repl # NoRef) =>
        /\ call.err = StaleNodeError
        /\ heap = call.pre

\* The part of C5 the code keeps: the replacement has text or entries.
C5_StaleTruthyMutationFails ==
    (/\ call.op \in Mutators
     /\ Truthy(call.pre, call.pre[call.node].repl)) =>
        /\ call.err = StaleNodeError
        /\ heap = call.pre

\* The end of the replacement chain that starts at n, read without changing
\* any reference.
RECURSIVE ChainEnd(_, _)
ChainEnd(H, n) == IF H[n].repl = NoRef THEN n ELSE ChainEnd(H, H[n].repl)

RECURSIVE ChainLength(_, _)
ChainLength(H, n) == IF H[n].repl = NoRef THEN 0 ELSE 1 + ChainLength(H, H[n].repl)

\* Node n is an entry of its parent.
Installed(H, n) ==
    /\ H[n].parent # NoRef
    /\ \E i \in 1..Len(H[H[n].parent].vals) : H[H[n].parent].vals[i] = n

\* A text call on a leaf nobody has replaced returned.
TextMutated ==
    /\ call.op \in {"set_cdata", "append_cdata", "strip_cdata"}
    /\ call.pre[call.node].kind = "cdata"
    /\ call.pre[call.node].repl = NoRef
    /\ call.err = NoError

\* C6: after each of N successive text calls on a leaf, get_current_node()
\* on the original and on every intermediate instance returns the one leaf
\* now installed in the container; get_current_node() returns the node
\* itself when it has no replacement, is idempotent, and leaves a stale
\* node's replacement reference pointing directly at the end of the chain.
C6_ChainCollapse ==
    /\ TextMutated =>
          /\ Installed(heap, call.ret)
          /\ heap[call.ret].repl = NoRef
          /\ \A m \in 1..Len(call.pre) :
                ChainEnd(call.pre, m) = call.node =>
                    GetCurrentNode(heap, m).ret = call.ret
    /\ call.op = "get_current_node" =>
          LET n == call.node
              again == GetCurrentNode(heap, call.ret)
              repeat == GetCurrentNode(heap, n)
          IN /\ call.err = NoError
             /\ call.pre[n].repl = NoRef => (call.ret = n /\ heap = call.pre)
             /\ call.ret = ChainEnd(call.pre, n)
             /\ \A m \in 1..Len(call.pre) :
                   ChainEnd(call.pre, m) = ChainEnd(call.pre, n) =>
                       GetCurrentNode(call.pre, m).ret = call.ret
             /\ again.ret = call.ret /\ again.heap = heap
             /\ repeat.ret = call.ret /\ repeat.heap = heap
             /\ call.pre[n].repl # NoRef =>
                   /\ heap[n].repl = call.ret
                   /\ heap[call.ret].repl = NoRef

C6_Witness ==
    /\ call.op = "get_current_node"
    /\ ChainLength(call.pre, call.node) >= 2
    /\ Installed(heap, call.ret)
    /\ heap[call.node].repl = call.ret

----------------------------------------------------------------------------
(* A caller serializing the tree that Parser.__call__ returned *)

EmitNames == {"a"}
EmitData == {<<"1">>}

FullDocument == {"None", "True", "False"}

\* The callbacks of Parse(xml_input, True), elements nested two deep.
EmitParse ==
    /\ pc = "start"
    /\ \/ \E n \in EmitNames, a \in TreeAttrs :
            Len(open) < MaxEmitDepth /\ TokStart(n, a, MaxEmitEvents)
       \/ \E d \in EmitData : TokChars(d, MaxEmitEvents)
       \/ TokEnd
    /\ UNCHANGED <<pc, at_eof, rv, yielded, call, parserVars>>

\* lst.dict() on a list of the tree.
EmitListDict ==
    /\ pc = "done"
    /\ \E l \in {n \in Below(heap, root) : heap[n].kind = "list"} :
         Bind(ListDict(heap, l), LAMBDA r :
           /\ heap' = r.heap
           /\ call' = [op |-> "dict", node |-> l, arg |-> <<>>, err |-> r.err,
                       ret |-> r.ret, pre |-> heap, out |-> <<>>])
    /\ pc' = "dict"
    /\ UNCHANGED <<handlerVars, error, open, phase, at_eof, rv, yielded, histVars, parserVars>>

\* node.emit_handler(content_handler, pretty=..., full_document=...) on a
\* node of the tree or on the dictionary that dict() returned.
EmitCall ==
    /\ pc \in {"done", "dict"}
    /\ \E n \in Below(heap, root) \cup (IF pc = "dict" THEN {call.ret} ELSE {}),
          pretty \in BOOLEAN, full_document \in FullDocument :
         Bind(EmitHandler(heap, n, pretty, full_document), LAMBDA r :
           call' = [op |-> "emit_handler", node |-> n,
                    arg |-> <<pretty, full_document>>, err |-> r.err,
                    ret |-> NoRef, pre |-> heap, out |-> r.out])
    /\ pc' = "emitted"
    /\ UNCHANGED <<heap, handlerVars, error, open, phase, at_eof, rv, yielded, histVars, parserVars>>

NextEmit == EmitParse \/ TreeReturn \/ EmitListDict \/ EmitCall

SpecEmit == InitTree /\ [][NextEmit]_vars

----------------------------------------------------------------------------
(* Parser.__call__ and Parser._parse_generator on input expat rejects *)

\* expat.errors.XML_ERROR_NO_ELEMENTS and the other messages of ExpatError.
NoElements == "ExpatError: no element found"
UnclosedToken == "ExpatError: unclosed token"
NotWellFormed == "ExpatError: not well-formed (invalid token)"
MismatchedTag == "ExpatError: mismatched tag"
JunkAfterDocument == "ExpatError: junk after document element"

\* The errors expat can raise in the middle of the input.
ExpatErrors ==
    {NotWellFormed}
        \cup (IF phase = "content" THEN {MismatchedTag} ELSE {})
        \cup (IF phase = "epilog" THEN {JunkAfterDocument} ELSE {})

\* The errors expat can raise when the input ends: inside a token, or
\* before the document element was closed.
ExpatErrorsAtEnd ==
    {UnclosedToken} \cup (IF phase \in {"prolog", "content"} THEN {NoElements} ELSE {})

ErrGenerators == {<<>>, <<<<"a">>>>}

\* self._kwargs.get("generator", False)
GeneratorMode == match_tests # <<>>

InitErr == \E g \in ErrGenerators : ParserCall(g, TRUE, <<>>)

\* The except clause of Parser.__call__: raise_error stays True unless ...
RaiseErrorMutant(message, started) == message # NoElements
RaiseError(message, started) == ~(message = NoElements /\ ~started)

\* The except clause of Parser._parse_generator.
RaiseErrorGenerator(message, eof, started) ==
    ~(message = NoElements /\ eof /\ ~started)

\* Parse raised ExpatError(message) on the chunk read with at_eof = eof.
ExpatRaised(message, eof) ==
    [NoCall EXCEPT !.op = "Parse", !.err = message, !.arg = <<eof>>]

\* Without a generator: Parse(xml_input, True) raises ExpatError.  The
\* error is raised again, or self._handler.item is returned.
ErrTree ==
    /\ ~GeneratorMode
    /\ error = NoError
    /\ pc = "start"
    /\ \E message \in ExpatErrors \cup ExpatErrorsAtEnd :
         /\ IF RaiseError(message, processing_started)
            THEN /\ error' = message
                 /\ pc' = "raised"
                 /\ call' = ExpatRaised(message, TRUE)
                 /\ phase' = phase
            ELSE /\ error' = error
                 /\ pc' = "done"
                 /\ call' = [ExpatRaised(message, TRUE) EXCEPT !.ret = item]
                 /\ phase' = "eof"
    /\ UNCHANGED <<heap, handlerVars, open, at_eof, rv, yielded, histVars, parserVars>>

\* With a generator: Parse(buf, False) raises ExpatError in the middle of a
\* chunk; at_eof is False, so the error is raised again.
ErrGenChunk ==
    /\ GeneratorMode
    /\ error = NoError
    /\ pc = "parse"
    /\ \E message \in ExpatErrors :
         /\ RaiseErrorGenerator(message, FALSE, processing_started)
         /\ error' = message
         /\ call' = ExpatRaised(message, FALSE)
    /\ pc' = "raised"
    /\ UNCHANGED <<heap, handlerVars, tokenVars, at_eof, rv, yielded, histVars, parserVars>>

\* With a generator: the read returns no data, at_eof, and Parse(buf, True)
\* raises ExpatError.  The error is raised again, or the loop goes on:
\* end_document(), rv = pop_matches().
ErrGenEOF ==
    /\ GeneratorMode
    /\ error = NoError
    /\ pc = "start" \/ (pc = "yield" /\ rv = <<>> /\ ~at_eof)
    /\ at_eof' = TRUE
    /\ \E message \in ExpatErrorsAtEnd :
         /\ call' = ExpatRaised(message, TRUE)
         /\ IF RaiseErrorGenerator(message, TRUE, processing_started)
            THEN /\ error' = message
                 /\ pc' = "raised"
                 /\ UNCHANGED <<heap, handlerVars, tokenVars, rv, histVars>>
            ELSE /\ Bind(EndDocument(Self), LAMBDA s :
                        /\ Becomes(PopMatches(s))
                        /\ rv' = Popped(s)
                        /\ emitted' = emitted \o Recorded(s, Len(events) + 1))
                 /\ events' = Append(events, Event("end_document", None, NoAttrs, <<>>))
                 /\ phase' = "eof"
                 /\ pc' = "yield"
                 /\ open' = open
    /\ UNCHANGED <<yielded, parserVars>>

\* The callbacks of Parse(xml_input, True) before the end or the error.
ErrTreeParse ==
    /\ pc = "start"
    /\ \/ \E n \in Names : TokStart(n, NoAttrs, MaxEvents)
       \/ TokChars(<<"1">>, MaxEvents)
       \/ TokEnd
    /\ UNCHANGED <<pc, at_eof, rv, yielded, call, parserVars>>

\* Parser.__call__ without a generator.
ErrTreeMode == ~GeneratorMode /\ (ErrTreeParse \/ TreeReturn)

\* Parser._parse_generator.
ErrGeneratorMode == GeneratorMode /\ Next

NextErr == ErrTreeMode \/ ErrTree \/ ErrGeneratorMode \/ ErrGenChunk \/ ErrGenEOF

SpecErr == InitErr /\ [][NextErr]_vars

----------------------------------------------------------------------------
(* Parser(generator=...)(xml_input) with any list of match strings, the    *)
(* empty one included: __call__ returns the tree, or the generator.        *)

DepthGenerators == Generators \cup {<<>>}

InitDepth == \E g \in DepthGenerators : ParserCall(g, TRUE, <<>>)

NextDepth == ErrTreeMode \/ ErrGeneratorMode

SpecDepth == InitDepth /\ [][NextDepth]_vars

----------------------------------------------------------------------------
(* Parser(generator=[m]) for every match string m over two names and "/" *)

PatternChars == {"a", "b", Slash}

AllStrings == UNION {[1..n -> PatternChars] : n \in 0..MaxPatternLen}

\* _make_handler constructs the handler, which parses the match string; the
\* call keeps the argument.
InitSegments ==
    \E m \in AllStrings :
        /\ StartsAs(DictSAXHandler(<<>>, TRUE, TRUE, <<>>, <<m>>))
        /\ open = <<>> /\ phase = "prolog"
        /\ pc = "start" /\ at_eof = FALSE /\ rv = <<>>
        /\ yielded = <<>>
        /\ call = [NoCall EXCEPT !.op = "Parser", !.arg = <<m>>]
        /\ parser = None /\ calls = <<>>
        /\ events = <<>> /\ emitted = <<>>

SpecSegments == InitSegments /\ [][Next]_vars

----------------------------------------------------------------------------
(* add_node with and without a key argument *)

KeyArguments == {None, "k", "a"}

\* node.add_node(tag, key=key, text="1")
KeysAddNode ==
    \E n \in Nodes, tag \in Names, key \in KeyArguments :
        /\ Len(heap) + 2 <= MaxKeyNodes
        /\ Called("add_node", n, <<tag, key>>,
                  AddNode(heap, n, tag, key, <<"1">>, NoAttrs, NoRef, TRUE))

SpecKeys == InitNode /\ [][KeysAddNode]_vars

----------------------------------------------------------------------------
(* parse(xml_input) followed by calls on the nodes of the returned tree *)

LinkTexts == {<<"1">>}

\* The callbacks of Parse(xml_input, True).
LinksParse ==
    /\ pc = "start"
    /\ \/ \E n \in Names : TokStart(n, NoAttrs, MaxLinkEvents)
       \/ \E d \in LinkTexts : TokChars(d, MaxLinkEvents)
       \/ TokEnd
    /\ UNCHANGED <<pc, at_eof, rv, yielded, call, parserVars>>

\* Parse returns on a complete document: return self._handler.item; the
\* caller goes on with the tree.
LinksReturn ==
    /\ error = NoError
    /\ pc = "start"
    /\ phase = "epilog"
    /\ pc' = "caller"
    /\ phase' = "eof"
    /\ call' = [NoCall EXCEPT !.op = "parse", !.ret = item]
    /\ UNCHANGED <<heap, handlerVars, error, open, at_eof, rv, yielded, histVars, parserVars>>

\* The nodes that were not replaced.
CurrentNodes == {n \in Nodes : heap[n].repl = NoRef}

\* node.add_node(tag, text=text)
LinksAddNode ==
    \E n \in CurrentNodes, tag \in Names, text \in LinkTexts :
        /\ Len(heap) + 2 <= MaxLinkNodes
        /\ Called("add_node", n, <<tag, text>>,
                  AddNode(heap, n, tag, None, text, NoAttrs, NoRef, TRUE))

\* leaf.set_cdata(text)
LinksSetCdata ==
    \E n \in CurrentNodes \cap Leaves, text \in SetTexts :
        /\ Len(heap) < MaxLinkNodes
        /\ Called("set_cdata", n, text, SetCdata(heap, n, text))

\* leaf.append_cdata(text)
LinksAppendCdata ==
    \E n \in CurrentNodes \cap Leaves, text \in LinkTexts :
        /\ Len(heap) < MaxLinkNodes
        /\ Len(heap[n].text) + Len(text) <= MaxText
        /\ Called("append_cdata", n, text, AppendCdata(heap, n, text))

NextLinks ==
    LinksParse \/ LinksReturn \/ LinksAddNode \/ LinksSetCdata \/ LinksAppendCdata

SpecLinks == InitTree /\ [][NextLinks]_vars

----------------------------------------------------------------------------
(* Parser(generator=...): match strings the handler may reject *)

PatternStrings ==
    {<<>>, <<Slash>>, <<Slash, Slash>>, <<Slash, Slash, Slash>>,
     <<"a", Slash, Slash, "b">>, <<Slash, Slash, "a">>, <<"a", Slash, Slash>>,
     <<"a", Slash>>, <<Slash, "a">>, <<"b">>}

PatternGenerators ==
    {<<m>> : m \in PatternStrings} \cup {<<<<"a">>, m>> : m \in PatternStrings}

\* Parser(generator=g): _make_handler constructs the handler, which parses
\* the match strings; the call keeps the argument.
InitPattern ==
    \E g \in PatternGenerators :
        /\ StartsAs(DictSAXHandler(<<>>, TRUE, TRUE, <<>>, g))
        /\ open = <<>> /\ phase = "prolog"
        /\ pc = "start" /\ at_eof = FALSE /\ rv = <<>>
        /\ yielded = <<>>
        /\ call = [NoCall EXCEPT !.op = "Parser", !.arg = g]
        /\ parser = None /\ calls = <<>>
        /\ events = <<>> /\ emitted = <<>>

SpecPattern == InitPattern /\ [][Next]_vars

----------------------------------------------------------------------------
(* Parser(namespaces=..., strip_namespace=...) *)

NoNamespaces == <<>>

\* The options of the call: namespaces as the items of the mapping.
Options(namespaces, strip_namespace) ==
    [namespaces |-> namespaces, strip_namespace |-> strip_namespace]

NamespaceOptions ==
    {Options(NoNamespaces, FALSE), Options(NoNamespaces, TRUE),
     Options(<<<<(<<"u">>), <<"p">>>>, <<(<<"v">>), <<"p">>>>>>, FALSE),
     Options(<<<<(<<"u">>), <<>>>>>>, FALSE)}

QualifiedNames == {<<"a">>, <<"u", NamespaceSeparator, "a">>}

QualifiedAttrs ==
    {<<>>,
     <<<<(<<"u", NamespaceSeparator, "x">>), "1">>>>,
     <<<<(<<"u", NamespaceSeparator, "x">>), "1">>, <<(<<"v", NamespaceSeparator, "x">>), "2">>>>,
     <<<<(<<"u", NamespaceSeparator, "x">>), "1">>, <<(<<"x">>), "2">>>>,
     <<<<(<<"x">>), "2">>, <<(<<"v", NamespaceSeparator, "x">>), "1">>>>,
     <<<<(<<"xmlns", NamespaceSeparator, "x">>), "u">>, <<(<<"x">>), "2">>>>}

InitNamespaces ==
    \E opt \in NamespaceOptions, attribs \in BOOLEAN :
        /\ StartsAs(DictSAXHandler(<<>>, attribs, TRUE, <<>>, <<>>))
        /\ open = <<>> /\ phase = "prolog"
        /\ pc = "start" /\ at_eof = FALSE /\ rv = <<>>
        /\ yielded = <<>>
        /\ call = [NoCall EXCEPT !.op = "Parser", !.arg = opt]
        /\ parser = None /\ calls = <<>>
        /\ events = <<>> /\ emitted = <<>>

\* StartElementHandler, the handler having the options of the call.
TokStartWith(full_name, attrs, limit) ==
    /\ CanStart(limit)
    /\ Handled(StartElementWith(Self, call.arg, full_name, attrs))
    /\ events' = Append(events, Event("start", Str(full_name), attrs, <<>>))
    /\ open' = Append(open, [name |-> Str(full_name), at |-> Len(events) + 1])
    /\ phase' = "content"

\* The callbacks of Parse(xml_input, True).
NamespacesParse ==
    /\ pc = "start"
    /\ \/ \E n \in QualifiedNames, a \in QualifiedAttrs :
            TokStartWith(n, a, MaxNamespaceEvents)
       \/ TokChars(<<"1">>, MaxNamespaceEvents)
       \/ TokEnd
    /\ UNCHANGED <<pc, at_eof, rv, yielded, call, parserVars>>

\* return self._handler.item; the options stay those of the call.
NamespacesReturn ==
    /\ error = NoError
    /\ pc = "start"
    /\ phase = "epilog"
    /\ pc' = "done"
    /\ phase' = "eof"
    /\ UNCHANGED <<heap, handlerVars, error, open, at_eof, rv, yielded, call, parserVars, histVars>>

NextNamespaces == NamespacesParse \/ NamespacesReturn

SpecNamespaces == InitNamespaces /\ [][NextNamespaces]_vars

----------------------------------------------------------------------------
(* Parser(generator=...) with the match string "/" *)

RootGenerators ==
    {<<(<<Slash>>)>>, <<(<<Slash>>), <<"a">>>>, <<(<<"b">>), <<Slash>>>>,
     <<(<<Slash>>), <<Slash>>>>}

InitRoot == \E g \in RootGenerators : ParserCall(g, TRUE, <<>>)

SpecRoot == InitRoot /\ [][Next]_vars

----------------------------------------------------------------------------
(* Parser(generator=["/", "a"], strip_whitespace=..., cdata_separator=...) *)

InitStrip ==
    \E strip \in BOOLEAN, sep \in Separators :
        ParserCall(<<(<<Slash>>), <<"a">>>>, strip, sep)

\* The callbacks of one Parse(buf, False) call, white space among the data.
StripParse ==
    /\ pc = "parse"
    /\ \/ \E n \in Names : TokStart(n, NoAttrs, MaxStripEvents)
       \/ \E d \in TextData : TokChars(d, MaxStripEvents)
       \/ TokEnd
    /\ UNCHANGED <<pc, at_eof, rv, yielded, call, parserVars>>

NextStrip == GenRead \/ StripParse \/ GenChunkEnd \/ GenEOF \/ GenYield \/ GenDone

SpecStrip == InitStrip /\ [][NextStrip]_vars

----------------------------------------------------------------------------
(* list() and dict(): a node turned into a list, nodes re-keyed into a     *)
(* dictionary                                                              *)

\* 'NoneType' object has no attribute 'parent'
NoParentError == "AttributeError: 'NoneType' object has no attribute 'parent'"

\* The functions a caller passes as func: none, one that returns the
\* node's text and one that returns "k".
Funcs == {"None", "get_cdata", "k"}

\* XMLNodeBase.list and XMLListNode.list.  Without in_place the result is
\* the Python list [self], here the tuple <<n>>.
NodeList(H, n, in_place) ==
    IF H[n].kind = "list" THEN Return(H, n)
    ELSE IF ~in_place THEN [Return(H, NoRef) EXCEPT !.ret = <<n>>]
    ELSE Bind(ReplaceNode(Append(H, XMLListNode(<<n>>, H[n].tag, H[n].key, H[n].parent)),
                          n, Len(H) + 1), LAMBDA r :
         IF r.err # NoError THEN r
         ELSE Return([r.heap EXCEPT ![n].repl = NoRef,
                                    ![n].key = r.heap[Len(H) + 1].key,
                                    ![n].parent = Len(H) + 1],
                     Len(H) + 1))

\* The key of a member: no attrs and no tags are given, so func(child) or,
\* when that is false, child.tag.
NewKey(H, child, func) ==
    Bind(IF func = "get_cdata" THEN Str(H[child].text)
         ELSE IF func = "k" THEN "k" ELSE None, LAMBDA newkey :
         IF KeyGiven(newkey) THEN newkey ELSE H[child].tag)

\* for child in self: newnode.add_node(tag=child.tag, key=newkey,
\* new_node=child, update=in_place)
RECURSIVE ListDictLoop(_, _, _, _, _, _)
ListDictLoop(H, l, newnode, func, in_place, i) ==
    IF i > Len(H[l].vals) THEN Return(H, newnode)
    ELSE Bind(DictAddNode(H, newnode, H[H[l].vals[i]].tag,
                          NewKey(H, H[l].vals[i], func), <<>>, <<>>,
                          H[l].vals[i], in_place), LAMBDA r :
         IF r.err # NoError THEN r
         ELSE ListDictLoop(r.heap, l, newnode, func, in_place, i + 1))

\* while not isinstance(parent, XMLDictNode): parent = parent.parent
RECURSIVE EnclosingDict(_, _)
EnclosingDict(H, parent) ==
    IF parent = NoRef THEN NoRef
    ELSE IF H[parent].kind = "dict" THEN parent
    ELSE EnclosingDict(H, H[parent].parent)

\* The except clause of XMLListNode.dict: with in_place and promote the list
\* is put back, then the exception is raised again.
ListDictRestore(r, l, in_place, promote) ==
    IF ~(in_place /\ promote) THEN r
    ELSE IF r.heap[r.heap[l].parent].kind = "list"
    THEN Raise(AppendToList(r.heap, r.heap[l].parent, l, FALSE).heap, r.err)
    ELSE Bind(AddNode(r.heap, r.heap[l].parent, r.heap[l].tag,
                      r.heap[l].key, <<>>, <<>>, l, TRUE), LAMBDA a :
         Raise(a.heap, IF a.err # NoError THEN a.err ELSE r.err))

\* The loop and what follows it: self._replace_node(newnode) unless
\* promoted; return newnode.
ListDictFill(H, l, newnode, func, in_place, promote) ==
    Bind(ListDictLoop(H, l, newnode, func, in_place, 1), LAMBDA r :
         IF r.err # NoError THEN ListDictRestore(r, l, in_place, promote)
         ELSE IF in_place /\ ~promote
         THEN Bind(ReplaceNode(r.heap, l, newnode), LAMBDA p :
              IF p.err # NoError THEN p ELSE Return(p.heap, newnode))
         ELSE r)

\* A new dictionary (the object at Len(H) + 1) with the list's tag, key and
\* parent, marked _ignore_level.
ListDictNew(H, l, func, in_place) ==
    ListDictFill(Append(H, [XMLDictNode(H[l].tag, H[l].key, H[l].parent, <<>>, <<>>)
                               EXCEPT !.ignore_level = TRUE]),
                 l, Len(H) + 1, func, in_place, FALSE)

\* XMLListNode.dict(func=func, in_place=in_place, promote=promote)
ListDictWith(H, l, func, in_place, promote) ==
    IF ~in_place THEN ListDictNew(H, l, func, FALSE)
    ELSE IF CheckReplacement(H, l) THEN Raise(H, StaleNodeError)
    ELSE IF ~promote THEN ListDictNew(H, l, func, TRUE)
    ELSE Bind(EnclosingDict(H, H[l].parent), LAMBDA parent :
         IF parent = NoRef THEN Raise(H, NoParentError)
         ELSE IF ~Truthy(H, parent) THEN Raise(H, ValueError)
         ELSE Bind(ReplaceNode(H, l, NoRef), LAMBDA r :
              IF r.err # NoError THEN r
              ELSE ListDictFill(r.heap, l, parent, func, TRUE, TRUE)))

\* The except clause of XMLNodeBase.dict: the node gets its parent, tag and
\* key back and takes the place of the list again.
NodeDictRestore(H, r, n, newlist) ==
    Bind(ReplaceNode([r.heap EXCEPT ![n].parent = H[n].parent, ![n].tag = H[n].tag,
                                    ![n].key = H[n].key, ![n].repl = NoRef],
                     newlist, n), LAMBDA p :
         Raise(p.heap, IF p.err # NoError THEN p.err ELSE r.err))

\* XMLNodeBase.dict(func=func, in_place=in_place, promote=promote) on a
\* node that is no list: the node is put in a list (its parent when that is
\* a list of this node alone, else a new one) and the list is turned into
\* the dictionary.
NodeDict(H, n, func, in_place, promote) ==
    IF ~in_place
    THEN ListDictWith(Append(H, XMLListNode(<<n>>, H[n].tag, H[n].key, NoRef)),
                      Len(H) + 1, func, FALSE, promote)
    ELSE IF CheckReplacement(H, n) THEN Raise(H, StaleNodeError)
    ELSE Bind(IF /\ H[n].parent # NoRef
                 /\ H[H[n].parent].kind = "list"
                 /\ Len(H[H[n].parent].vals) = 1
                 /\ NodeEq(H, H[H[n].parent].vals[1], n)
              THEN Return(H, H[n].parent)
              ELSE NodeList(H, n, TRUE), LAMBDA newlist :
         IF newlist.err # NoError THEN newlist
         ELSE Bind(ListDictWith(newlist.heap, newlist.ret, func, TRUE, promote),
                   LAMBDA r :
              IF r.err # NoError THEN NodeDictRestore(H, r, n, newlist.ret)
              ELSE r))

\* node.dict(...)
Dict(H, n, func, in_place, promote) ==
    IF H[n].kind = "list" THEN ListDictWith(H, n, func, in_place, promote)
    ELSE NodeDict(H, n, func, in_place, promote)

----------------------------------------------------------------------------
(* A caller that builds a tree with add_node, turns nodes of it into      *)
(* lists with list() and then re-keys it with one call of dict()           *)

RekeyTexts == {<<"1">>, <<"2">>}

\* node.add_node(tag, text=text)
RekeyAddNode ==
    \E n \in Nodes, tag \in Names, text \in RekeyTexts :
        /\ Len(heap) + 2 <= MaxRekeyTree
        /\ call.op \in {"none", "add_node"}
        /\ Called("add_node", n, <<tag, text>>,
                  AddNode(heap, n, tag, None, text, NoAttrs, NoRef, TRUE))

\* node.list(in_place=in_place)
RekeyList ==
    \E n \in Nodes, in_place \in BOOLEAN :
        /\ Len(heap) < MaxRekeyNodes
        /\ call.op \in {"none", "add_node", "list"}
        /\ Called("list", n, <<in_place>>, NodeList(heap, n, in_place))

\* node.dict(func=func, in_place=in_place, promote=promote)
RekeyDict ==
    \E n \in Nodes, func \in Funcs, in_place \in BOOLEAN, promote \in BOOLEAN :
        /\ call.op \in {"none", "add_node", "list"}
        /\ Called("dict", n, <<func, in_place, promote>>,
                  Dict(heap, n, func, in_place, promote))

NextRekey == RekeyAddNode \/ RekeyList \/ RekeyDict

SpecRekey == InitNode /\ [][NextRekey]_vars

----------------------------------------------------------------------------
(* A Parser object called more than once *)

ParsingFinished == "ExpatError: parsing finished"

\* dict.update on a copy of d
Update(d, kwargs) ==
    [k \in DOMAIN d \cup DOMAIN kwargs |->
        IF k \in DOMAIN kwargs THEN kwargs[k] ELSE d[k]]

\* kwargs.get(key, default)
Get(kwargs, key, default) == IF key \in DOMAIN kwargs THEN kwargs[key] ELSE default

KeywordArguments ==
    {<<>>, [strip_whitespace |-> FALSE], [generator |-> <<(<<"a">>)>>],
     [generator |-> <<>>]}

Token(type, name, data) == [type |-> type, name |-> name, attrs |-> NoAttrs, data |-> data]

\* '<a> 1</a>' and '<a><b/>2</a>'
Documents ==
    {<<Token("start", "a", <<>>), Token("chars", "a", <<" ", "1">>),
       Token("end", "a", <<>>)>>,
     <<Token("start", "a", <<>>), Token("start", "b", <<>>), Token("end", "b", <<>>),
       Token("chars", "a", <<"2">>), Token("end", "a", <<>>)>>}

\* _process_args: self._kwargs is a copy of the defaults, updated with the
\* arguments of this call.
ProcessArgs(P, kwargs) == [P EXCEPT !.kwargs = Update(P.default_kwargs, kwargs)]

\* _make_handler: _DictSAXHandler(**self._kwargs)
MakeHandler(kwargs) ==
    DictSAXHandler(<<>>, Get(kwargs, "xml_attribs", TRUE),
                   Get(kwargs, "strip_whitespace", TRUE),
                   Get(kwargs, "cdata_separator", <<>>),
                   Get(kwargs, "generator", <<>>))

\* _make_parser: a new expat parser bound to the handler s.
MakeParser(s) == [s |-> s, open |-> <<>>, phase |-> "prolog"]

\* self._parser with self._handler
Expat == [s |-> Self, open |-> open, phase |-> phase]

ExpatError(e, message) == [e EXCEPT !.s.err = message]

\* One token of the input through the expat parser: the callback, or the
\* error expat raises.  A parser that raised keeps its error.
ExpatToken(e, tok) ==
    IF e.s.err # NoError THEN e
    ELSE IF e.phase = "eof" THEN ExpatError(e, ParsingFinished)
    ELSE IF tok.type = "start"
    THEN IF e.phase = "epilog" THEN ExpatError(e, JunkAfterDocument)
         ELSE [s |-> StartElement(e.s, tok.name, tok.attrs),
               open |-> Append(e.open, [name |-> tok.name, at |-> 0]),
               phase |-> "content"]
    ELSE IF tok.type = "chars"
    THEN IF e.phase = "content" THEN [e EXCEPT !.s = Characters(e.s, tok.data)]
         ELSE IF \A i \in 1..Len(tok.data) : tok.data[i] \in Whitespace THEN e
         ELSE IF e.phase = "prolog" THEN ExpatError(e, NotWellFormed)
         ELSE ExpatError(e, JunkAfterDocument)
    ELSE IF e.phase = "prolog" THEN ExpatError(e, NotWellFormed)
    ELSE IF e.phase = "epilog" THEN ExpatError(e, JunkAfterDocument)
    ELSE IF e.open[Len(e.open)].name # tok.name THEN ExpatError(e, MismatchedTag)
    ELSE [s |-> EndElement(e.s),
          open |-> SubSeq(e.open, 1, Len(e.open) - 1),
          phase |-> IF Len(e.open) = 1 THEN "epilog" ELSE "content"]

\* Parse(buf, False)
RECURSIVE ExpatParse(_, _, _)
ExpatParse(e, buf, i) ==
    IF i > Len(buf) THEN e ELSE ExpatParse(ExpatToken(e, buf[i]), buf, i + 1)

\* Parse(buf, True): the end of the input after buf.
ExpatParseFinal(e, buf) ==
    Bind(ExpatParse(e, buf, 1), LAMBDA f :
        IF f.s.err # NoError THEN f
        ELSE IF f.phase = "eof" THEN ExpatError(f, ParsingFinished)
        ELSE IF f.phase \in {"prolog", "content"} THEN ExpatError(f, NoElements)
        ELSE [f EXCEPT !.phase = "eof"])

\* The parser and its handler become e.
ExpatBecomes(e) ==
    /\ Becomes(e.s)
    /\ open' = e.open
    /\ phase' = e.phase

\* Parser(**kwargs): the defaults, a handler made from them and stashed,
\* and self._handler = None (handler 0).  default_handler is a list of
\* one handler, or empty for None.
ParserInit(kwargs) ==
    /\ parser = [default_kwargs |-> kwargs, kwargs |-> kwargs,
                 default_handler |-> <<MakeHandler(kwargs)>>,
                 handler |-> 0, made |-> 1]
    /\ calls = <<>>
    /\ StartsAs(MakeHandler(kwargs))
    /\ open = <<>> /\ phase = "prolog"
    /\ pc = "start" /\ at_eof = FALSE /\ rv = <<>>
    /\ yielded = <<>> /\ call = [NoCall EXCEPT !.op = "Parser", !.arg = kwargs]
    /\ events = <<>> /\ emitted = <<>>

InitParser == \E kwargs \in KeywordArguments : ParserInit(kwargs)

\* The handler __call__ parses with: the stashed one, once, for a call
\* without arguments, else a new one.
UseDefaultHandler(P, kwargs) == DOMAIN kwargs = {} /\ P.default_handler # <<>>

ChooseHandler(P, kwargs) ==
    IF UseDefaultHandler(P, kwargs)
    THEN [P EXCEPT !.handler = 1, !.default_handler = <<>>]
    ELSE [P EXCEPT !.handler = P.made + 1, !.made = P.made + 1]

HandlerOf(P, Q, kwargs) ==
    IF UseDefaultHandler(P, kwargs) THEN P.default_handler[1] ELSE MakeHandler(Q.kwargs)

\* What the caller knows of a call: its arguments, the handler it was
\* given, and the generator's frame (io_obj position, at_eof, rv) or the
\* result.  History: the handler's number and state at the call, the
\* handlers the call's parsing ran on, the earlier calls whose generator was
\* not exhausted at the call.
CallRecord(xml_input, kwargs, Q, s) ==
    [xml_input |-> xml_input, kwargs |-> kwargs, options |-> Q.kwargs,
     handler |-> Q.handler, before |-> [s EXCEPT !.heap = <<>>],
     root |-> s.heap[s.root],
     generator |-> Get(Q.kwargs, "generator", <<>>) # <<>>,
     pos |-> 0, at_eof |-> FALSE, rv |-> <<>>, pc |-> "created",
     out |-> <<>>, err |-> NoError, ran_on |-> {},
     outstanding |-> {c \in 1..Len(calls) : calls[c].pc \in {"created", "suspended"}}]

\* Parser.__call__(xml_input, **kwargs) without a generator: the whole
\* input is parsed and self._handler.item returned.
CallTree(xml_input, kwargs) ==
    /\ Len(calls) < MaxCalls
    /\ Bind(ProcessArgs(parser, kwargs), LAMBDA P :
       Bind(ChooseHandler(P, kwargs), LAMBDA Q :
       Bind(HandlerOf(parser, Q, kwargs), LAMBDA s :
         /\ Get(Q.kwargs, "generator", <<>>) = <<>>
         /\ parser' = Q
         /\ Bind(ExpatParseFinal(MakeParser(s), xml_input), LAMBDA e :
              /\ ExpatBecomes(e)
              /\ calls' = Append(calls,
                    [CallRecord(xml_input, kwargs, Q, s) EXCEPT
                        !.pc = IF e.s.err # NoError
                                  /\ RaiseError(e.s.err, e.s.processing_started)
                               THEN "raised" ELSE "done",
                        !.err = IF e.s.err # NoError
                                   /\ RaiseError(e.s.err, e.s.processing_started)
                                THEN e.s.err ELSE NoError,
                        !.out = IF e.s.err # NoError
                                   /\ RaiseError(e.s.err, e.s.processing_started)
                                THEN <<>> ELSE <<Content(e.s.heap, e.s.item)>>,
                        !.ran_on = {Q.handler}])))))
    /\ UNCHANGED <<genVars, call, histVars>>

\* Parser.__call__(xml_input, **kwargs) with a generator: the generator
\* object is returned, nothing is parsed yet.
CallGenerator(xml_input, kwargs) ==
    /\ Len(calls) < MaxCalls
    /\ Bind(ProcessArgs(parser, kwargs), LAMBDA P :
       Bind(ChooseHandler(P, kwargs), LAMBDA Q :
       Bind(HandlerOf(parser, Q, kwargs), LAMBDA s :
         /\ Get(Q.kwargs, "generator", <<>>) # <<>>
         /\ parser' = Q
         /\ ExpatBecomes(MakeParser(s))
         /\ calls' = Append(calls, CallRecord(xml_input, kwargs, Q, s)))))
    /\ UNCHANGED <<genVars, call, histVars>>

\* The tuples of a drained list, as the caller sees them.
DrainedTuples(s) ==
    [i \in 1..Len(s.matches) |->
        [path |-> s.matches[i].path, match_string |-> s.matches[i].match_string,
         content |-> Content(s.heap, s.matches[i].node)]]

\* The generator of call c resumes: one pass of the loop of
\* _parse_generator, on self._parser and self._handler as they are now.
\* The read returns the next n tokens, or nothing at the end of the input.
FrameRead(c, n) ==
    /\ calls[c].generator
    /\ calls[c].pc \in {"created", "suspended"}
    /\ calls[c].rv = <<>> /\ ~calls[c].at_eof
    /\ n = 0 <=> calls[c].pos = Len(calls[c].xml_input)
    /\ calls[c].pos + n <= Len(calls[c].xml_input)
    /\ Bind(IF n = 0 THEN ExpatParseFinal(Expat, <<>>)
            ELSE ExpatParse(Expat, SubSeq(calls[c].xml_input, calls[c].pos + 1,
                                          calls[c].pos + n), 1),
            LAMBDA e :
         IF e.s.err # NoError
            /\ RaiseErrorGenerator(e.s.err, n = 0, e.s.processing_started)
         THEN /\ ExpatBecomes(e)
              /\ calls' = [calls EXCEPT ![c].pc = "raised", ![c].err = e.s.err,
                                        ![c].at_eof = (n = 0),
                                        ![c].ran_on = @ \cup {parser.handler}]
         ELSE Bind(IF n = 0 THEN [EndDocument([e.s EXCEPT !.err = NoError])
                                      EXCEPT !.err = IF @ # NoError THEN @ ELSE e.s.err]
                   ELSE e.s, LAMBDA s :
                IF n = 0 /\ s.err = AssertionError
                THEN /\ ExpatBecomes([e EXCEPT !.s = s])
                     /\ calls' = [calls EXCEPT ![c].pc = "raised", ![c].err = s.err,
                                               ![c].at_eof = TRUE,
                                               ![c].ran_on = @ \cup {parser.handler}]
                ELSE /\ ExpatBecomes([e EXCEPT !.s = PopMatches(s)])
                     /\ calls' = [calls EXCEPT ![c].pc = "suspended",
                                               ![c].pos = @ + n,
                                               ![c].at_eof = (n = 0),
                                               ![c].rv = DrainedTuples(s),
                                               ![c].ran_on = @ \cup {parser.handler}]))
    /\ UNCHANGED <<genVars, call, histVars, parser>>

\* yield rv
FrameYield(c) ==
    /\ calls[c].generator
    /\ calls[c].pc = "suspended"
    /\ calls[c].rv # <<>>
    /\ calls' = [calls EXCEPT ![c].out = Append(@, Head(calls[c].rv)),
                              ![c].rv = Tail(@)]
    /\ UNCHANGED <<heap, handlerVars, error, tokenVars, genVars, call, histVars, parser>>

\* The loop ends: StopIteration.
FrameDone(c) ==
    /\ calls[c].generator
    /\ calls[c].pc = "suspended"
    /\ calls[c].rv = <<>> /\ calls[c].at_eof
    /\ calls' = [calls EXCEPT ![c].pc = "done"]
    /\ UNCHANGED <<heap, handlerVars, error, tokenVars, genVars, call, histVars, parser>>

NextParser ==
    \/ \E x \in Documents, kwargs \in KeywordArguments : CallTree(x, kwargs)
    \/ \E x \in Documents, kwargs \in KeywordArguments : CallGenerator(x, kwargs)
    \/ \E c \in 1..Len(calls) : \E n \in 0..Len(calls[c].xml_input) : FrameRead(c, n)
    \/ \E c \in 1..Len(calls) : FrameYield(c)
    \/ \E c \in 1..Len(calls) : FrameDone(c)

SpecParser == InitParser /\ [][NextParser]_vars

----------------------------------------------------------------------------
(* Claims about building a tree by hand *)

\* add_node(tag) without a new_node argument was called on a leaf nobody has
\* replaced, which has a parent and is an entry of it.
AddedToLeaf ==
    /\ call.op = "add_node"
    /\ Len(call.arg) = 2 /\ call.arg[2] = NoRef
    /\ call.pre[call.node].kind = "cdata"
    /\ call.pre[call.node].repl = NoRef
    /\ Installed(call.pre, call.node)

\* The leaf of the call is now a dictionary in the same slot, holding the
\* added child alone.
ConvertedToMapping ==
    LET old == call.node
        was == call.pre[old]
        p == was.parent
        new == heap[old].repl
    IN /\ call.err = NoError
       /\ new \notin 1..Len(call.pre) /\ new \in 1..Len(heap)
       /\ heap[new].kind = "dict"
       /\ heap[new].tag = was.tag /\ heap[new].key = was.key
       /\ heap[new].text = was.text /\ heap[new].xml_attrs = was.xml_attrs
       /\ heap[new].parent = p
       /\ heap[p].keys = call.pre[p].keys
       /\ Len(heap[p].vals) = Len(call.pre[p].vals)
       /\ \A i \in 1..Len(heap[p].vals) :
             heap[p].vals[i] = IF call.pre[p].vals[i] = old THEN new
                               ELSE call.pre[p].vals[i]
       /\ heap[new].keys = <<call.arg[1]>>
       /\ heap[new].vals = <<call.ret>>
       /\ call.ret \notin 1..Len(call.pre)
       /\ heap[call.ret].parent = new
       /\ heap[call.ret].kind = "cdata" /\ heap[call.ret].tag = call.arg[1]
       /\ heap[old] = [was EXCEPT !.repl = new]
       /\ CheckReplacement(heap, old)
       /\ GetCurrentNode(heap, old).ret = new

\* C12: add_node on a current leaf that has a parent makes a new dictionary
\* with the leaf's tag, key, text and attributes, which takes the leaf's slot
\* in its container and holds exactly the added child, whose parent it is;
\* the old leaf is stale and get_current_node() on it is the new dictionary.
C12_LeafBecomesMapping == AddedToLeaf => ConvertedToMapping

\* C12 for a leaf held in a dictionary under its own key.
C12_LeafInMappingBecomesMapping ==
    (AddedToLeaf /\ CurrentLeafInMapping(call.pre, call.node)) => ConvertedToMapping

\* A leaf with text and attributes, held in a dictionary, was given a child.
C12_InMappingReached ==
    /\ AddedToLeaf /\ CurrentLeafInMapping(call.pre, call.node)
    /\ call.pre[call.node].text # <<>>
    /\ call.pre[call.node].xml_attrs # <<>>
    /\ call.err = NoError

\* The dictionaries, and the lists that are an entry of some container.
Dicts(H) == {n \in 1..Len(H) : H[n].kind = "dict"}
HeldLists(H) ==
    {l \in 1..Len(H) :
        /\ H[l].kind = "list"
        /\ \E c \in 1..Len(H) : \E i \in 1..Len(H[c].vals) : H[c].vals[i] = l}

NoDuplicates(s) == \A i, j \in 1..Len(s) : s[i] = s[j] => i = j

\* add_node(tag) without a new_node argument was called on a dictionary.
AddedToDict ==
    /\ call.op = "add_node"
    /\ Len(call.arg) = 2 /\ call.arg[2] = NoRef
    /\ call.pre[call.node].kind = "dict"

\* _replace_node(None) was called on a node nobody has replaced that is a
\* member of a list held by a dictionary.
RemovedMember ==
    /\ call.op = "_replace_node"
    /\ call.pre[call.node].repl = NoRef
    /\ Installed(call.pre, call.node)
    /\ call.pre[call.pre[call.node].parent].kind = "list"
    /\ Installed(call.pre, call.pre[call.node].parent)
    /\ call.pre[call.pre[call.pre[call.node].parent].parent].kind = "dict"

\* C13: the keys of a dictionary are distinct; add_node under a key the
\* dictionary already has turns a single entry into a list of that entry and
\* the new node, and lengthens a list by the new node; add_node under a new
\* key adds the key; removing a member of a list shortens the list by one
\* member, and removing the only member takes the key out of the dictionary;
\* no container ever holds an empty list.
C13_KeysUniqueSequencesGrowAndShrink ==
    /\ \A d \in Dicts(heap) : NoDuplicates(heap[d].keys)
    /\ \A l \in HeldLists(heap) : heap[l].vals # <<>>
    /\ AddedToDict =>
          LET d == call.node
              k == IndexOf(call.pre[d].keys, call.arg[1])
          IN /\ call.err = NoError
             /\ call.ret \notin 1..Len(call.pre)
             /\ IF k = 0 THEN
                    /\ heap[d].keys = Append(call.pre[d].keys, call.arg[1])
                    /\ heap[d].vals = Append(call.pre[d].vals, call.ret)
                ELSE
                    /\ heap[d].keys = call.pre[d].keys
                    /\ Len(heap[d].vals) = Len(call.pre[d].vals)
                    /\ \A i \in 1..Len(heap[d].vals) :
                          i # k => heap[d].vals[i] = call.pre[d].vals[i]
                    /\ heap[heap[d].vals[k]].kind = "list"
                    /\ heap[heap[d].vals[k]].vals =
                          IF call.pre[call.pre[d].vals[k]].kind = "list"
                          THEN Append(call.pre[call.pre[d].vals[k]].vals, call.ret)
                          ELSE <<call.pre[d].vals[k], call.ret>>
    /\ RemovedMember =>
          LET l == call.pre[call.node].parent
              d == call.pre[l].parent
              k == IndexOf(call.pre[d].vals, l)
          IN /\ call.err = NoError
             /\ \E i \in 1..Len(call.pre[l].vals) :
                   heap[l].vals = RemoveAt(call.pre[l].vals, i)
             /\ IF Len(call.pre[l].vals) > 1
                THEN heap[d].keys = call.pre[d].keys /\ heap[d].vals = call.pre[d].vals
                ELSE /\ heap[d].keys = RemoveAt(call.pre[d].keys, k)
                     /\ heap[d].vals = RemoveAt(call.pre[d].vals, k)

\* The only member left of a list that once had three was removed, and the
\* key went with it.
C13_Witness ==
    /\ RemovedMember
    /\ Len(call.pre[call.pre[call.node].parent].vals) = 1
    /\ heap[call.pre[call.pre[call.node].parent].parent].keys = <<>>
    /\ Cardinality({m \in 1..Len(heap) :
                       heap[m].parent = call.pre[call.node].parent}) >= 3
    /\ call.err = NoError

\* The objects that existed before the call are as they were: no container
\* gained or lost an entry, no node became stale, no text or attribute
\* changed.
NothingChanged == \A m \in 1..Len(call.pre) : heap[m] = call.pre[m]

\* add_node was called on a current node.
AddedToCurrent == call.op = "add_node" /\ call.pre[call.node].repl = NoRef

\* C19: add_node on a current list raises the TypeError of lists, and
\* add_node on a current dictionary or leaf with a new_node that is not a
\* node raises the TypeError of new_node; either way every object is as it
\* was before the call.
C19_TypeErrorsChangeNothing ==
    AddedToCurrent =>
        /\ call.pre[call.node].kind = "list"
               => call.err = ListAddError /\ NothingChanged
        /\ (call.pre[call.node].kind \in {"dict", "cdata"} /\ call.arg[2] = NotANode)
               => call.err = NodeTypeError /\ NothingChanged

\* A leaf held in a two-member list was given something that is not a node.
C19_Witness ==
    /\ AddedToCurrent
    /\ call.pre[call.node].kind = "cdata"
    /\ call.pre[call.node].parent # NoRef
    /\ call.pre[call.pre[call.node].parent].kind = "list"
    /\ call.arg[2] = NotANode
    /\ call.err = NodeTypeError

\* add_node was called on a current list.
C19_ListReached ==
    /\ AddedToCurrent
    /\ call.pre[call.node].kind = "list"
    /\ call.err = ListAddError

\* A text call, or an add_node that passes no new_node, was made on a leaf
\* without a parent.
RootLeafCalled ==
    /\ call.op \in {"set_cdata", "append_cdata", "strip_cdata", "add_node"}
    /\ call.op = "add_node" => call.arg[2] = NoRef
    /\ call.pre[call.node].kind = "cdata"
    /\ call.pre[call.node].parent = NoRef

\* C20: set_cdata, append_cdata, strip_cdata or add_node on a leaf without a
\* parent raises the AttributeError of the root document and leaves the
\* leaf as it was: same text, same attributes, _replacement_node None.
C20_RootLeafUnchanged ==
    RootLeafCalled =>
        /\ call.err = RootError
        /\ heap[call.node] = call.pre[call.node]
        /\ heap[call.node].repl = NoRef

\* add_node(tag, text=...) was called on a leaf without a parent.
C20_Witness ==
    /\ RootLeafCalled
    /\ call.op = "add_node"
    /\ call.err = RootError

\* set_cdata was called on a leaf without a parent.
C20_SetCdataReached ==
    /\ RootLeafCalled
    /\ call.op = "set_cdata"
    /\ call.err = RootError

----------------------------------------------------------------------------
(* Claims about serializing *)

\* What expat delivers for the text that XMLGenerator writes for the calls
\* out[i..]: an element per startElement/endElement pair, characters and
\* ignorableWhitespace both written as character data, adjacent character
\* data delivered in one piece (buffer_text), nothing for empty data, for
\* the prologue, or for white space outside the root element.
RECURSIVE ExpatCallbacks(_, _, _, _)
ExpatCallbacks(out, i, depth, acc) ==
    IF i > Len(out) THEN acc
    ELSE IF out[i].type = "startElement"
    THEN ExpatCallbacks(out, i + 1, depth + 1,
                        Append(acc, [type |-> "start", name |-> out[i].name,
                                     attrs |-> out[i].attrs, data |-> <<>>]))
    ELSE IF out[i].type = "endElement"
    THEN ExpatCallbacks(out, i + 1, depth - 1,
                        Append(acc, [type |-> "end", name |-> out[i].name,
                                     attrs |-> <<>>, data |-> <<>>]))
    ELSE IF out[i].type \in {"startDocument", "endDocument"}
            \/ out[i].data = <<>> \/ depth = 0
    THEN ExpatCallbacks(out, i + 1, depth, acc)
    ELSE IF acc # <<>> /\ acc[Len(acc)].type = "chars"
    THEN ExpatCallbacks(out, i + 1, depth,
                        [acc EXCEPT ![Len(acc)].data = @ \o out[i].data])
    ELSE ExpatCallbacks(out, i + 1, depth,
                        Append(acc, [type |-> "chars", name |-> None,
                                     attrs |-> <<>>, data |-> out[i].data]))

\* The handler after parsing, with the present options, what was written.
Reparsed(out) == ParseWhole(FreshHandler, ExpatCallbacks(out, 1, 0, <<>>), 1)

\* Some element of the document has both text and child elements.
MixedContent ==
    \E b \in Completed : Inside(b, "chars") # {} /\ Inside(b, "start") # {}

\* The tree that parse returned was serialized, not pretty-printed.
SerializedTree ==
    /\ call.op = "emit_handler"
    /\ call.node = root
    /\ call.arg[1] = FALSE
    /\ call.pre = heap

\* C14: when the tree built from a document without mixed content is
\* serialized and the output is parsed again, the second tree has the same
\* content as the first: keys in the same order, lists of the same length
\* with members in the same order, the same texts and the same attributes in
\* the same order.
C14_RoundTrip ==
    (SerializedTree /\ ~MixedContent) =>
        /\ call.err = NoError
        /\ Reparsed(call.out).err = NoError
        /\ Content(Reparsed(call.out).heap, Reparsed(call.out).item) = Content(heap, item)

\* The number of elements at the top level of the calls out[i..].
RECURSIVE TopLevelElements(_, _, _)
TopLevelElements(out, i, depth) ==
    IF i > Len(out) THEN 0
    ELSE IF out[i].type = "startElement"
    THEN (IF depth = 0 THEN 1 ELSE 0) + TopLevelElements(out, i + 1, depth + 1)
    ELSE IF out[i].type = "endElement" THEN TopLevelElements(out, i + 1, depth - 1)
    ELSE TopLevelElements(out, i + 1, depth)

\* What the node serializes to when no enclosing document is asked for.
Serialization == EmitHandler(call.pre, call.node, call.arg[1], "False").out

\* C15: emit_handler with full_document=True raises ValueError, with no call
\* made on the ContentHandler, whenever the serialization of the node has
\* more than one top-level element; so an output that starts with
\* startDocument never has more than one top-level element.
C15_FullDocumentOneRoot ==
    call.op = "emit_handler" =>
        /\ (call.arg[2] = "True" /\ TopLevelElements(Serialization, 1, 0) > 1)
               => call.err = ValueError /\ call.out = <<>>
        /\ (call.out # <<>> /\ call.out[1].type = "startDocument")
               => TopLevelElements(call.out, 1, 0) <= 1

----------------------------------------------------------------------------
(* Claims about input expat rejects *)

\* Parse raised an ExpatError.
ParseFailed == call.op = "Parse"

\* A start-element or characters callback was processed.
ContentProcessed == \E e \in 1..Len(events) : events[e].type \in {"start", "chars"}

\* The ExpatError did not reach the caller.
Suppressed == ParseFailed /\ error = NoError

C16_SuppressedReached == Suppressed /\ pc = "done"

----------------------------------------------------------------------------
(* Claims about match strings *)

\* The segments of a match string: the pieces between its slashes.
Segments(m) == Split(m)

OnlyEmptySegments(m) == \A i \in 1..Len(Segments(m)) : Segments(m)[i] = <<>>

\* An empty segment that is neither the leading one nor the trailing one.
OtherEmptySegment(m) ==
    \E i \in 2..(Len(Segments(m)) - 1) : Segments(m)[i] = <<>>

\* The construction failed: an error was raised, no event was processed and
\* nothing was built under the handler's root.
Rejected ==
    /\ error \in {ConfigWarning, IndexError}
    /\ pc = "start"
    /\ events = <<>>
    /\ Len(heap) = 1 /\ heap[1].keys = <<>>

\* The statement for every match string consisting of empty segments only.
C17_EmptySegmentsRejected ==
    call.op = "Parser" =>
        ((\E i \in 1..Len(call.arg) :
             OnlyEmptySegments(call.arg[i]) \/ OtherEmptySegment(call.arg[i]))
         => Rejected)

\* C17: a match string consisting only of empty segments, other than "/"
\* itself, and any match string with an empty segment other than the
\* leading one and a single trailing one, raises an error when the handler
\* is constructed, before any event is processed and before any node is
\* built; "/" is accepted.
C17_EmptySegmentsRejectedButSlash ==
    call.op = "Parser" =>
        /\ (\E i \in 1..Len(call.arg) :
               \/ OnlyEmptySegments(call.arg[i]) /\ call.arg[i] # <<Slash>>
               \/ OtherEmptySegment(call.arg[i]))
           => Rejected
        /\ call.arg = <<(<<Slash>>)>> => error = NoError

\* A match string with an empty segment between two names, given after a
\* valid one, was rejected.
C17_Witness ==
    /\ call.op = "Parser"
    /\ Len(call.arg) = 2
    /\ call.arg[2] = <<"a", Slash, Slash, "b">>
    /\ Rejected

\* "/" alone was accepted and matched the root of a document.
C17_SlashReached ==
    /\ call.op = "Parser"
    /\ call.arg = <<(<<Slash>>)>>
    /\ yielded # <<>>

----------------------------------------------------------------------------
(* Claims about namespaces *)

\* The names the attributes have after namespace processing: with
\* strip_namespace the xmlns attributes are gone and every prefix is cut
\* off, otherwise the prefixes are rewritten.
ProcessedNames(opt, attrs) ==
    Bind(IF opt.strip_namespace THEN SelectSeq(attrs, LAMBDA p : ~IsXmlns(p[1])) ELSE attrs,
         LAMBDA kept : [i \in 1..Len(kept) |-> BuildNameWith(opt, kept[i][1])])

\* Two attributes of the element have the same name afterwards.
NameConflict(opt, attrs) ==
    \E i, j \in 1..Len(ProcessedNames(opt, attrs)) :
        i # j /\ ProcessedNames(opt, attrs)[i] = ProcessedNames(opt, attrs)[j]

\* A start-element callback has just been handled.
StartHandled ==
    /\ Len(events') = Len(events) + 1
    /\ events'[Len(events')].type = "start"

\* The handler keeps attributes, and the start-element callback just handled
\* had two attributes whose names are the same after namespace processing.
ConflictHandled ==
    /\ call.op = "Parser"
    /\ xml_attribs
    /\ StartHandled
    /\ NameConflict(call.arg, events'[Len(events')].attrs)

\* C18: when namespace processing gives two attributes of an element the
\* same name, start_element raises the duplicate-attribute error and leaves
\* path and the tree as they were.
C18_DuplicateAttributeRaises ==
    [][ConflictHandled
        => (error' = DuplicateAttribute /\ path' = path /\ heap' = heap)]_vars

\* The same for strip_namespace alone.
C18_DuplicateAfterStrippingRaises ==
    [][(ConflictHandled /\ call.arg.strip_namespace)
        => (error' = DuplicateAttribute /\ path' = path /\ heap' = heap)]_vars

----------------------------------------------------------------------------
(* Claims about the match string "/" *)

\* The matches recorded with the path "/".
RootMatches == {k \in 1..Len(emitted) : emitted[k].path = "/"}

DocumentEnded == \E e \in 1..Len(events) : events[e].type = "end_document"

\* The segments with a slash between them.
RECURSIVE Joined(_)
Joined(segments) ==
    IF Len(segments) = 1 THEN segments[1]
    ELSE segments[1] \o "/" \o Joined(Tail(segments))

\* The handler of a call without generator after the events delivered so far.
WholeTree ==
    ParseWhole(DictSAXHandler(<<>>, xml_attribs, strip_whitespace, cdata_separator, <<>>),
               events, 1)

\* C21: with "/" among the match strings one match with the path "/" is
\* recorded per document, at end_document and after every other match, and
\* its node is the handler's root, the tag-less dictionary holding the whole
\* tree; every other match has the path "/" followed by the names of the
\* open elements joined by "/".
C21_RootMatchedOnceAtTheEnd ==
    /\ Cardinality(RootMatches) = IF DocumentEnded THEN 1 ELSE 0
    /\ \A k \in RootMatches :
          /\ events[emitted[k].at].type = "end_document"
          /\ k = Len(emitted)
          /\ emitted[k].node = root
          /\ heap[root].kind = "dict" /\ heap[root].tag = None
          /\ heap[root].parent = NoRef
          /\ emitted[k].content = Content(WholeTree.heap, WholeTree.root)
    /\ \A k \in 1..Len(emitted) :
          k \notin RootMatches =>
              emitted[k].path = "/" \o Joined(LivePath(emitted[k].at))

\* The root was matched after two other matches, one of them two deep.
C21_Witness ==
    /\ RootMatches # {}
    /\ Len(emitted) >= 3
    /\ \E k \in 1..Len(emitted) : Len(LivePath(emitted[k].at)) = 2

----------------------------------------------------------------------------
(* Claims about strip_whitespace *)

\* No white space at either end.
Trimmed(t) == t = <<>> \/ (t[1] \notin Whitespace /\ t[Len(t)] \notin Whitespace)

OnlyWhitespace(t) == \A i \in 1..Len(t) : t[i] \in Whitespace

\* Every text of the content c is trimmed.
RECURSIVE AllTrimmed(_)
AllTrimmed(c) ==
    /\ Trimmed(c.text)
    /\ \A i \in 1..Len(c.children) : AllTrimmed(c.children[i])

\* The elements that were closed and have a node.
Built == {e \in EndEvents : events[e].node # NoRef}

\* With strip_whitespace, no text of a match or of the finished tree has
\* white space at an end.
TextsTrimmed ==
    strip_whitespace =>
        /\ \A k \in 1..Len(emitted) : AllTrimmed(emitted[k].content)
        /\ phase \in {"epilog", "eof"} => AllTrimmed(Content(heap, root))

\* The statement for every cdata_separator and every element.
C22_StrippedOrExact ==
    /\ TextsTrimmed
    /\ \A e \in Built :
          IF strip_whitespace
          THEN OnlyWhitespace(OwnData(events[e].start)) => heap[events[e].node].text = <<>>
          ELSE heap[events[e].node].text = OwnData(events[e].start)

\* No separator can have entered the text of the element closed at e: the
\* separator is empty or the element has no child elements.
NoSeparatorIn(e) == cdata_separator = <<>> \/ Inside(events[e].start, "start") = {}

\* C22: with strip_whitespace, for every cdata_separator, no text of a
\* match or of the finished tree has white space at an end; when the
\* separator is empty or the element has no child elements, an element
\* whose character data is only white space has empty text, and without
\* strip_whitespace its text is exactly the character data received.
C22_StrippedOrExactWithoutSeparator ==
    /\ TextsTrimmed
    /\ \A e \in Built :
          NoSeparatorIn(e) =>
              IF strip_whitespace
              THEN OnlyWhitespace(OwnData(events[e].start))
                       => heap[events[e].node].text = <<>>
              ELSE heap[events[e].node].text = OwnData(events[e].start)

\* With strip_whitespace and a separator, a leaf that received only white
\* space was closed inside an element that was closed after it.
C22_Witness ==
    /\ strip_whitespace
    /\ cdata_separator # <<>>
    /\ \E e \in Built :
          /\ Len(events[e].path) = 2
          /\ OwnData(events[e].start) # <<>>
          /\ OnlyWhitespace(OwnData(events[e].start))
          /\ heap[events[e].node].text = <<>>
    /\ phase = "eof"

\* Without strip_whitespace, a leaf kept white space at both ends.
C22_ExactReached ==
    /\ ~strip_whitespace
    /\ \E e \in Built :
          /\ Len(OwnData(events[e].start)) = 3
          /\ ~Trimmed(OwnData(events[e].start))
          /\ heap[events[e].node].text = OwnData(events[e].start)

----------------------------------------------------------------------------
(* Claims about a Parser called more than once *)

Finished(c) == calls[c].pc \in {"done", "raised"}

\* The handler of call c was made from the constructor's options updated
\* with the arguments of the call, and nothing had happened to it: empty
\* path, stack and match list, a new empty root.
FreshBuilder(c) ==
    /\ calls[c].options = Update(call.arg, calls[c].kwargs)
    /\ calls[c].before =
           [MakeHandler(Update(call.arg, calls[c].kwargs)) EXCEPT !.heap = <<>>]
    /\ calls[c].before.path = <<>> /\ calls[c].before.stack = <<>>
    /\ calls[c].before.matches = <<>>
    /\ calls[c].root = XMLDictNode(None, None, NoRef, <<>>, <<>>)

\* All the parsing of call c ran on the handler of call c, and no other
\* call was given that handler.
OwnBuilder(c) ==
    /\ calls[c].ran_on \subseteq {calls[c].handler}
    /\ \A d \in 1..Len(calls) : d # c => calls[d].handler # calls[c].handler

SameCall(c, d) ==
    /\ calls[c].xml_input = calls[d].xml_input
    /\ calls[c].options = calls[d].options

SameResult(c, d) == calls[c].out = calls[d].out /\ calls[c].err = calls[d].err

CallsIndependent ==
    /\ \A c \in 1..Len(calls) : FreshBuilder(c) /\ OwnBuilder(c)
    /\ \A c, d \in 1..Len(calls) :
         Finished(c) /\ Finished(d) /\ SameCall(c, d) => SameResult(c, d)

\* C23: the keyword arguments of a call apply to that call only (a later
\* call without them runs with the constructor's options), every call runs
\* on a fresh builder of its own, and two calls with the same input and the
\* same options give equal results.
C23_CallsIndependent == CallsIndependent

\* The same for calls made when no generator of an earlier call is left
\* unexhausted.
C23_CallsInTurnIndependent ==
    (\A c \in 1..Len(calls) : calls[c].outstanding = {}) => CallsIndependent

\* A call with keyword arguments was followed by a call without, both
\* finished; and the same call was made twice and finished twice.
C23_Witness ==
    /\ Len(calls) = 2
    /\ calls[1].kwargs # <<>> /\ calls[2].kwargs = <<>>
    /\ calls[1].options # calls[2].options
    /\ Finished(1) /\ Finished(2)
    /\ calls[1].outstanding = {} /\ calls[2].outstanding = {}

C23_SameCallTwice ==
    /\ Len(calls) = 2
    /\ SameCall(1, 2) /\ calls[1].generator
    /\ Finished(1) /\ Finished(2)
    /\ calls[2].outstanding = {}

----------------------------------------------------------------------------
(* Claims about list() and dict() *)

Range(s) == {s[i] : i \in 1..Len(s)}

\* The finished call was node.dict(func, in_place, promote).
DictCalled(in_place, promote) ==
    /\ call.op = "dict" /\ call.err = NoError
    /\ call.arg[2] = in_place /\ call.arg[3] = promote

\* The nodes dict() re-keys: the members of a list, or the node itself.
Rekeyed ==
    IF call.pre[call.node].kind = "list" THEN Range(call.pre[call.node].vals)
    ELSE {call.node}

\* The list the re-keyed nodes came from, NoRef when the node was the entry
\* of a dictionary.
SourceList ==
    IF call.pre[call.node].kind = "list" THEN call.node
    ELSE IF call.pre[call.node].parent # NoRef
            /\ call.pre[call.pre[call.node].parent].kind = "list"
    THEN call.pre[call.node].parent
    ELSE NoRef

\* Node m is the entry of dictionary d under key, and says so.
EntryOf(H, m, d, key) ==
    /\ \E k \in 1..Len(H[d].keys) : H[d].keys[k] = key /\ H[d].vals[k] = m
    /\ H[m].key = key
    /\ H[m].parent = d

\* List l is gone from the container it was in, and so is that container
\* when it is a list left empty.
RECURSIVE RemovedFrom(_, _)
RemovedFrom(l, p) ==
    /\ l \notin Range(heap[p].vals)
    /\ heap[p].kind = "list" /\ heap[p].vals = <<>> /\ call.pre[p].parent # NoRef
           => RemovedFrom(p, call.pre[p].parent)

\* List l holds the members it had, less the re-keyed nodes, and is where
\* it was.
StaysWithTheOthers(l) ==
    /\ heap[l].vals = SelectSeq(call.pre[l].vals, LAMBDA m : m \notin Rekeyed)
    /\ heap[l].key = call.pre[l].key /\ heap[l].parent = call.pre[l].parent
    /\ \E k \in 1..Len(heap[heap[l].parent].vals) :
         /\ heap[heap[l].parent].vals[k] = l
         /\ heap[heap[l].parent].kind = "dict" => heap[heap[l].parent].keys[k] = heap[l].key

Promoted ==
    /\ call.ret = EnclosingDict(call.pre, call.pre[call.node].parent)
    /\ \A m \in Rekeyed :
         /\ EntryOf(heap, m, call.ret, NewKey(call.pre, m, call.arg[1]))
         /\ heap[m].tag = call.pre[m].tag
    /\ SourceList # NoRef =>
         IF Range(call.pre[SourceList].vals) \subseteq Rekeyed
         THEN RemovedFrom(SourceList, call.pre[SourceList].parent)
         ELSE StaysWithTheOthers(SourceList)

\* C24: dict(in_place=True, promote=True) returns the first enclosing
\* dictionary; each re-keyed node is then an entry of it under its computed
\* key, with that key, its old tag and that dictionary as parent; the list
\* the nodes came from is removed (with every enclosing list left empty)
\* unless it has other members, and then it stays with those.
C24_PromotedIntoEnclosingMapping == DictCalled(TRUE, TRUE) => Promoted

\* The computed keys are new to the enclosing dictionary and differ from
\* one another.
NewKeys ==
    /\ \A m \in Rekeyed :
         NewKey(call.pre, m, call.arg[1])
             \notin Range(call.pre[EnclosingDict(call.pre, call.pre[call.node].parent)].keys)
    /\ \A m, x \in Rekeyed :
         m # x => NewKey(call.pre, m, call.arg[1]) # NewKey(call.pre, x, call.arg[1])

C24_PromotedUnderNewKeys == DictCalled(TRUE, TRUE) /\ NewKeys => Promoted

\* The objects that existed before the call are as they were.
TreeUnchanged == SubSeq(heap, 1, Len(call.pre)) = call.pre

\* Node m is an entry of dictionary d, or a member of a list that is.
PlacedIn(H, m, d) ==
    \E k \in 1..Len(H[d].vals) :
        \/ H[d].vals[k] = m
        \/ H[H[d].vals[k]].kind = "list" /\ m \in Range(H[H[d].vals[k]].vals)

\* C25: dict() without in_place returns a new dictionary holding the
\* re-keyed nodes and leaves the tree as it was: every node keeps its tag,
\* key and parent, every container its entries in their order, and no node
\* becomes stale.
C25_NotInPlaceLeavesTree ==
    call.op = "dict" /\ ~call.arg[2] =>
        /\ call.err = NoError
        /\ TreeUnchanged
        /\ call.ret > Len(call.pre) /\ heap[call.ret].kind = "dict"
        /\ \A m \in Rekeyed : PlacedIn(heap, m, call.ret)

\* No list of the tree is a member of another list.
NoListInList(H) ==
    \A i \in 1..Len(H) :
        H[i].kind = "list" /\ H[i].parent # NoRef => H[H[i].parent].kind # "list"

\* The same in a tree where no list is a member of another list.
C25_NotInPlaceLeavesFlatTree ==
    call.op = "dict" /\ ~call.arg[2] /\ NoListInList(call.pre) =>
        /\ call.err = NoError
        /\ TreeUnchanged
        /\ call.ret > Len(call.pre) /\ heap[call.ret].kind = "dict"
        /\ \A m \in Rekeyed : PlacedIn(heap, m, call.ret)

\* dict() without in_place was called on a list of several members that is
\* an entry of a dictionary.
C25_Witness ==
    /\ DictCalled(FALSE, FALSE)
    /\ call.pre[call.node].kind = "list"
    /\ Len(call.pre[call.node].vals) > 1
    /\ call.pre[call.node].parent # NoRef

C25_NodeReached ==
    /\ DictCalled(FALSE, TRUE)
    /\ call.pre[call.node].kind = "cdata"
    /\ call.pre[call.node].parent # NoRef
    /\ call.arg[1] = "k"

\* The slots of container p that hold node n itself.
SlotsOf(H, p, n) == {k \in 1..Len(H[p].vals) : H[p].vals[k] = n}

\* The key of slot k of container p: the entry's key in a dictionary, the
\* list's own key in a list.
SlotKey(H, p, k) == IF H[p].kind = "dict" THEN H[p].keys[k] ELSE H[p].key

ListCalled(in_place) == call.op = "list" /\ call.arg[1] = in_place

\* The node list() was called on was in a slot of its parent and is not a list.
InASlot ==
    /\ call.pre[call.node].kind # "list"
    /\ call.pre[call.node].parent # NoRef
    /\ call.pre[call.node].repl = NoRef
    /\ SlotsOf(call.pre, call.pre[call.node].parent, call.node) # {}

\* Slot k of parent p holds a new list whose only member is the node, and
\* nothing else of the tree has changed.
ListInSlot(p, k) ==
    /\ call.ret = Len(call.pre) + 1
    /\ Len(heap) = Len(call.pre) + 1
    /\ heap[call.ret].kind = "list"
    /\ heap[call.ret].vals = <<call.node>>
    /\ heap[call.ret].parent = p
    /\ heap[call.node] = [call.pre[call.node] EXCEPT
                              !.parent = call.ret,
                              !.key = SlotKey(call.pre, p, k)]
    /\ heap[p] = [call.pre[p] EXCEPT !.vals[k] = call.ret]
    /\ \A i \in 1..Len(call.pre) : i \notin {p, call.node} => heap[i] = call.pre[i]

\* C26: list(in_place=True) on a node in a slot of its parent puts a new
\* single-member list in that slot, with the node, not stale, as its member
\* under the slot's key; list(in_place=False) returns a temporary list and
\* leaves the tree as it was; list() on a list returns the list itself.
C26_ListInFormerSlot ==
    call.op = "list" =>
        /\ ListCalled(TRUE) /\ InASlot =>
              /\ call.err = NoError
              /\ \E k \in SlotsOf(call.pre, call.pre[call.node].parent, call.node) :
                     ListInSlot(call.pre[call.node].parent, k)
        /\ ListCalled(FALSE) /\ call.pre[call.node].kind # "list" =>
              call.err = NoError /\ call.ret = <<call.node>> /\ heap = call.pre
        /\ call.pre[call.node].kind = "list" =>
              call.err = NoError /\ call.ret = call.node /\ heap = call.pre

\* list(in_place=True) was called on the second of two members of a list.
C26_Witness ==
    /\ ListCalled(TRUE) /\ InASlot /\ call.err = NoError
    /\ call.pre[call.pre[call.node].parent].kind = "list"
    /\ 2 \in SlotsOf(call.pre, call.pre[call.node].parent, call.node)

----------------------------------------------------------------------------
(* Claims about the slot a node is replaced in *)

\* The node of the call was current and in slot k of its parent.
WasInSlot(k) ==
    /\ call.pre[call.node].repl = NoRef
    /\ call.pre[call.node].parent # NoRef
    /\ k \in SlotsOf(call.pre, call.pre[call.node].parent, call.node)

\* The parent's entries after the call: slot k removed, or slot k holding the
\* new node, and every other slot holding the object it held.
SlotRemoved(p, k) ==
    /\ heap[p].vals = RemoveAt(call.pre[p].vals, k)
    /\ heap[p].kind = "dict" => heap[p].keys = RemoveAt(call.pre[p].keys, k)

SlotReplaced(p, k) ==
    /\ call.ret \notin 1..Len(call.pre)
    /\ heap[p].vals = [call.pre[p].vals EXCEPT ![k] = call.ret]
    /\ heap[p].keys = call.pre[p].keys

\* C27: replacing or deleting a current node changes the slot of its parent
\* that holds the node itself and no other: a deletion removes that slot, a
\* replacement puts the new node there, and the other entries are the
\* objects they were, whatever their text or content.
C27_ReplacesOwnSlot ==
    \A k \in 1..Len(heap) :
        call.op \in {"_replace_node", "set_cdata", "append_cdata"} /\ WasInSlot(k) =>
            IF call.op = "_replace_node"
            THEN SlotRemoved(call.pre[call.node].parent, k)
            ELSE SlotReplaced(call.pre[call.node].parent, k)

\* A node was deleted or replaced while an earlier member of its list had
\* the same text.
C27_EqualSiblingReached ==
    /\ call.op \in {"_replace_node", "set_cdata"}
    /\ WasInSlot(2)
    /\ call.pre[call.pre[call.node].parent].kind = "list"
    /\ call.pre[call.node].kind = "cdata"
    /\ NodeEq(call.pre, call.pre[call.pre[call.node].parent].vals[1], call.node)

----------------------------------------------------------------------------
(* Claims about the ignore region *)

\* d is the smallest depth of the match strings.
MinimumDepth(d) ==
    /\ \E i \in 1..Len(match_tests) : match_tests[i].depth = d
    /\ \A i \in 1..Len(match_tests) : match_tests[i].depth >= d

\* C28: match_depth is the smallest depth of the match strings, and below
\* every path length when there are none; after every event the handler is
\* ignoring exactly when the path is shorter than match_depth.
C28_IgnoringBelowMatchDepth ==
    /\ match_tests # <<>> => MinimumDepth(match_depth)
    /\ match_tests = <<>> => match_depth < 0
    /\ in_ignore <=> Len(path) < match_depth

\* Two match strings of different depths, and an element that ended back
\* into the ignored levels.
C28_Witness ==
    /\ Len(match_tests) = 2
    /\ match_tests[1].depth > match_tests[2].depth
    /\ events # <<>> /\ events[Len(events)].type = "end"
    /\ in_ignore

\* No match strings, and an element has ended.
C28_NoPatternReached ==
    /\ match_tests = <<>>
    /\ events # <<>> /\ events[Len(events)].type = "end"
    /\ ~in_ignore /\ path # <<>>

\* The step is a start_element, characters or end_element event.
BuilderEvent ==
    /\ Len(events') = Len(events) + 1
    /\ events'[Len(events')].type \in {"start", "chars", "end"}

\* The path is shorter than match_depth before and after the step.
InIgnoreRegion == Len(path) < match_depth /\ Len(path') < match_depth

\* C29: an element or character event handled in the ignore region leaves
\* the nodes, the stack, the current node, the root, the separator flag and
\* the list of matches as they were; of these only the path changes.  (The
\* handler also notes in processing_started that content was seen.)
C29_IgnoredEventsChangeOnlyPath ==
    [][BuilderEvent /\ InIgnoreRegion =>
           UNCHANGED <<heap, stack, item, root, need_cdata_separator, matches,
                       in_ignore, match_tests, match_depth>>]_vars

\* An element was started one level below match_depth with nothing built.
C29_Witness ==
    /\ match_depth = 2
    /\ events # <<>> /\ events[Len(events)].type = "start"
    /\ Len(path) = 1
    /\ in_ignore

\* Characters, and the end of an element, in the ignore region.
C29_EndReached ==
    /\ Len(events) > 2
    /\ events[Len(events) - 1].type = "chars"
    /\ events[Len(events)].type = "end"
    /\ Len(path) + 1 < match_depth

----------------------------------------------------------------------------
(* Claims about the root of a streamed element *)

\* Match k was recorded at the end of an element at depth match_depth.
AtMatchDepth(k) ==
    /\ events[emitted[k].at].type = "end"
    /\ Len(LivePath(emitted[k].at)) = match_depth

\* Node n is the only entry of a dictionary without tag and without parent.
AloneUnderRoot(n) ==
    /\ heap[n].parent # NoRef
    /\ heap[heap[n].parent].kind = "dict"
    /\ heap[heap[n].parent].tag = None
    /\ heap[heap[n].parent].parent = NoRef
    /\ heap[heap[n].parent].keys = <<heap[n].tag>>
    /\ heap[heap[n].parent].vals = <<n>>

\* C30: with a generator, the node emitted for an element at depth
\* match_depth is the only entry of a tag-less dictionary of its own, which
\* no other emitted element of that depth shares; it is never a member of a
\* list with its earlier siblings.
C30_OwnRootAtMatchDepth ==
    \A k \in 1..Len(emitted) :
        AtMatchDepth(k) =>
            /\ AloneUnderRoot(emitted[k].node)
            /\ \A j \in 1..Len(emitted) :
                  j # k /\ AtMatchDepth(j) =>
                      heap[emitted[j].node].parent # heap[emitted[k].node].parent

\* Two siblings of the same name at depth match_depth were emitted.
C30_Witness ==
    \E j, k \in 1..Len(emitted) :
        /\ j < k
        /\ AtMatchDepth(j) /\ AtMatchDepth(k)
        /\ match_depth = 2
        /\ LivePath(emitted[j].at) = LivePath(emitted[k].at)

----------------------------------------------------------------------------
(* Claims about parent references *)

\* Every node held in a slot of a container at or below r has that container
\* as its parent.
ParentsHold(r) ==
    \A c \in Below(heap, r) :
        \A i \in 1..Len(heap[c].vals) : heap[heap[c].vals[i]].parent = c

\* C31: after every handler event and after every add_node, set_cdata and
\* append_cdata on a node that was not replaced, each node in a slot of a
\* container reachable from the root, from the handler's current node or
\* from its stack has that container as its parent.
C31_ParentIsTheHolder ==
    /\ ParentsHold(root)
    /\ ParentsHold(item)
    /\ \A i \in 1..Len(stack) : ParentsHold(stack[i])

\* A member was added to a list of the parsed tree by add_node.
C31_Witness ==
    /\ call.op = "add_node" /\ call.err = NoError
    /\ events # <<>>
    /\ heap[heap[call.ret].parent].kind = "list"
    /\ Len(heap[heap[call.ret].parent].vals) > 2

\* The text of a leaf of the parsed tree was set.
C31_SetCdataReached ==
    /\ call.op = "set_cdata" /\ call.err = NoError
    /\ events # <<>>
    /\ call.ret \in Below(heap, root)

----------------------------------------------------------------------------
(* Claims about the tree returned without a generator *)

\* parse() has returned.
Returned == pc = "done" /\ call.op = "parse"

\* C32: when the call without a generator returns after a well-formed
\* document, path and stack are empty and the node returned is the root
\* the handler was constructed with: a dictionary with tag None, key None,
\* no parent and no replacement, whose one entry is the document element.
C32_ReturnsConstructedRoot ==
    Returned =>
        /\ path = <<>> /\ stack = <<>>
        /\ call.ret = root
        /\ root = DictSAXHandler(<<>>, TRUE, TRUE, <<>>, <<>>).root
        /\ heap[root].kind = "dict"
        /\ heap[root].tag = None /\ heap[root].key = None
        /\ heap[root].parent = NoRef /\ heap[root].repl = NoRef
        /\ heap[root].keys = <<events[1].name>>
        /\ Len(heap[root].vals) = 1
        /\ heap[heap[root].vals[1]].tag = events[1].name
        /\ heap[heap[root].vals[1]].parent = root

\* The call returned the tree of a document with nested elements and text.
C32_Witness ==
    /\ Returned
    /\ Len(events) > 4
    /\ \E e \in 1..Len(events) : events[e].type = "chars"
    /\ \E e \in 1..Len(events) : events[e].type = "start" /\ Len(events[e].path) > 0

----------------------------------------------------------------------------
(* Claims about parsing a match string *)

\* The string m begins (ends) with "/".
LeadingSlash(m) == m # <<>> /\ m[1] = Slash
TrailingSlash(m) == m # <<>> /\ m[Len(m)] = Slash

\* m without its leading "/", and then without one trailing "/".
WithoutLeading(m) == IF LeadingSlash(m) THEN Tail(m) ELSE m
WithoutTrailing(m) == IF TrailingSlash(m) THEN SubSeq(m, 1, Len(m) - 1) ELSE m
Inner(m) == WithoutTrailing(WithoutLeading(m))

\* The number of "/" in m.
Slashes(m) == Cardinality({i \in 1..Len(m) : m[i] = Slash})

\* The handler was constructed with the one match string m.
Given(m) == call.op = "Parser" /\ call.arg = <<m>>
Accepted(m) == Given(m) /\ error = NoError

\* Match string m is accepted and parses to an anchored (rooted) or suffix
\* pattern with the given segments.
ParsedAs(m, rooted, segments) ==
    Given(m) =>
        /\ error = NoError
        /\ match_tests = <<GeneratorMatch(rooted, segments, Len(segments), Str(m))>>

\* The statement for the accepted match string m.
SegmentsOf(m) ==
    /\ Len(match_tests) = 1
    /\ match_tests[1].rooted <=> LeadingSlash(m)
    /\ match_tests[1].depth = Len(match_tests[1].elements)
    /\ match_tests[1].depth = IF Inner(m) = <<>> THEN 0 ELSE Slashes(Inner(m)) + 1
    /\ JoinPath(match_tests[1].elements) =
           IF Inner(m) = <<>> THEN "" ELSE Slash \o Str(Inner(m))
    /\ \A i \in 1..match_tests[1].depth : match_tests[1].elements[i] # ""

\* C33: an accepted match string is anchored iff it begins with "/"; after
\* the leading "/" and one trailing "/" are taken off, the segments are the
\* pieces between the remaining "/", in order, and depth is their number.
\* "a/b" and "a/b/" are suffix patterns and "/a/b" and "/a/b/" anchored
\* patterns of depth 2.
C33_SegmentsOfMatchString ==
    /\ call.op = "Parser" /\ error = NoError => SegmentsOf(call.arg[1])
    /\ ParsedAs(<<"a", Slash, "b">>, FALSE, <<"a", "b">>)
    /\ ParsedAs(<<"a", Slash, "b", Slash>>, FALSE, <<"a", "b">>)
    /\ ParsedAs(<<Slash, "a", Slash, "b">>, TRUE, <<"a", "b">>)
    /\ ParsedAs(<<Slash, "a", Slash, "b", Slash>>, TRUE, <<"a", "b">>)

\* "/a/b/" was accepted and an element matched it.
C33_Witness ==
    /\ Accepted(<<Slash, "a", Slash, "b", Slash>>)
    /\ emitted # <<>>

\* "a/b/" was accepted.
C33_SuffixReached == Accepted(<<"a", Slash, "b", Slash>>) /\ emitted # <<>>

----------------------------------------------------------------------------
(* Claims about the lists add_node creates *)

\* The lists held in a slot of a dictionary, and their members.
ListsInDicts ==
    {l \in Nodes : heap[l].kind = "list" /\ heap[l].parent # NoRef
                   /\ heap[heap[l].parent].kind = "dict"
                   /\ l \in Range(heap[heap[l].parent].vals)}
Members(l) == Range(heap[l].vals)

C34_MixedTagsReached ==
    \E l \in ListsInDicts : \E m1, m2 \in Members(l) : heap[m1].tag # heap[m2].tag

----------------------------------------------------------------------------
(* Claims about a replacement that fails *)

\* The call, on a node without a replacement, ended with "Unable to find
\* existing node in parent".
NotFound == call.err = NotFoundError /\ call.pre[call.node].repl = NoRef

\* C35: when _replace_node cannot find the node in its parent, the nodes are
\* as they were before the call: no container has another entry, and the
\* node has no replacement.
C35_FailedReplaceChangesNothing ==
    NotFound =>
        /\ SubSeq(heap, 1, Len(call.pre)) = call.pre
        /\ heap[call.node].repl = NoRef

\* The same for the entries of the containers alone.
C35_FailedReplaceKeepsEntries ==
    NotFound =>
        \A c \in 1..Len(call.pre) :
            heap[c].vals = call.pre[c].vals /\ heap[c].keys = call.pre[c].keys

\* set_cdata on a node that had been removed from its parent failed.
C35_Reached == NotFound /\ call.op = "set_cdata"

----------------------------------------------------------------------------
(* Claims about stale nodes in the tree *)

\* No node at or below r has been replaced.
NoneStale(r) == \A n \in Below(heap, r) : heap[n].repl = NoRef

\* C36: after every handler event no node in a slot of the tree under the
\* handler's root, under its current node or its stack, or under a node it
\* has emitted, is a replaced node: each slot holds the latest replacement.
C36_NoStaleNodeInTree ==
    /\ NoneStale(root)
    /\ NoneStale(item)
    /\ \A i \in 1..Len(stack) : NoneStale(stack[i])
    /\ \A k \in 1..Len(emitted) : NoneStale(emitted[k].node)

\* A tree with two same-name siblings was returned, the second with text.
C36_Reached ==
    /\ Returned
    /\ \E l \in Below(heap, root) :
          /\ heap[l].kind = "list"
          /\ Len(heap[l].vals) = 2
          /\ heap[heap[l].vals[2]].text # <<>>

----------------------------------------------------------------------------
(* Claims about the handler's current node and stack *)

\* The matches recorded by the last event.
JustEmitted == {k \in 1..Len(emitted) : emitted[k].at = Len(events)}

\* C37: after every handler event the current node and every entry of the
\* stack have no replacement, and every entry of the stack is a dictionary;
\* a node recorded as a match by an end_element is, at that moment, the node
\* the element ended with, carries its name and has no replacement.
C37_CurrentNodesNotStale ==
    /\ heap[item].repl = NoRef
    /\ \A i \in 1..Len(stack) :
          heap[stack[i]].repl = NoRef /\ heap[stack[i]].kind = "dict"
    /\ \A k \in JustEmitted :
          /\ heap[emitted[k].node].repl = NoRef
          /\ events[Len(events)].type = "end" =>
                /\ emitted[k].node = events[Len(events)].node
                /\ heap[emitted[k].node].tag = events[Len(events)].name
                /\ Content(heap, emitted[k].node) = emitted[k].content

\* An element with text and a child element, itself inside an element, has
\* just been recorded as a match.
C37_Witness ==
    /\ JustEmitted # {}
    /\ events[Len(events)].type = "end"
    /\ Len(stack) > 0
    /\ \E k \in JustEmitted :
          heap[emitted[k].node].kind = "dict" /\ heap[emitted[k].node].text # <<>>

----------------------------------------------------------------------------
(* Claims about the ignore region as an optimisation *)

\* A handler with the same match tests that never ignores: no level is
\* below its match_depth, so it builds the whole tree under one root and
\* tests the matches at every end_element and at end_document.
WholeTreeHandler ==
    [DictSAXHandler(<<>>, xml_attribs, strip_whitespace, cdata_separator, <<>>)
        EXCEPT !.match_tests = match_tests]

\* The callback the parser makes for the event e of the history.
ApplyEvent(s, e) ==
    CASE e.type = "start" -> StartElement(s, e.name, e.attrs)
      [] e.type = "chars" -> Characters(s, e.data)
      [] e.type = "end" -> EndElement(s)
      [] e.type = "end_document" -> EndDocument(s)

\* What an observer sees of a match: its path, its match string and the
\* content of its node when it is recorded.
Observed(H, m) ==
    [path |-> m.path, match_string |-> m.match_string, content |-> Content(H, m.node)]

\* The whole-tree handler after the first k events of the history, with the
\* matches it recorded on the way.
RECURSIVE Reference(_)
Reference(k) ==
    IF k = 0 THEN [s |-> WholeTreeHandler, out |-> <<>>]
    ELSE Bind(Reference(k - 1), LAMBDA r :
         IF r.s.err # NoError THEN r
         ELSE Bind(ApplyEvent(r.s, events[k]), LAMBDA s2 :
              [s |-> s2,
               out |-> r.out \o [i \in 1..(Len(s2.matches) - Len(r.s.matches)) |->
                                    Observed(s2.heap, s2.matches[Len(r.s.matches) + i])]]))

EmittedSequence ==
    [k \in 1..Len(emitted) |->
        [path |-> emitted[k].path, match_string |-> emitted[k].match_string,
         content |-> emitted[k].content]]

\* C38: the matches recorded by the handler that ignores the levels above
\* its match_depth are, in order, those of a handler that never ignores:
\* same paths, same match strings, same content of the nodes.
C38_IgnoringIsTransparent ==
    /\ EmittedSequence = Reference(Len(events)).out
    /\ Reference(Len(events)).s.err = error

\* A match was recorded below a level the handler ignored, after an earlier
\* element of the same name had been built and dropped.
C38_Witness ==
    /\ match_depth >= 2
    /\ Len(emitted) >= 2
    /\ \E k \in 1..Len(emitted) : emitted[k].content.text # <<>>
    /\ Reference(Len(events)).s.heap # heap

----------------------------------------------------------------------------
(* Claims about generators of one Parser *)

\* The matches of the input and the options of call c: what a Parser that
\* makes no other call yields for them.
OwnMatches(c) ==
    Bind(ExpatParseFinal(MakeParser(MakeHandler(calls[c].options)), calls[c].xml_input),
         LAMBDA e : DrainedTuples(EndDocument(e.s)))

\* The generator of call c was created while the generator of an earlier
\* call was not exhausted, or the other way round.
Overlapping(c) ==
    \E d \in 1..Len(calls) :
        /\ calls[d].generator /\ calls[c].generator
        /\ (d \in calls[c].outstanding \/ c \in calls[d].outstanding)

\* C39: a generator that ends, whatever other generators of the same Parser
\* were created and read in between, ends without an error, having yielded
\* exactly the matches of its own input and patterns.
C39_GeneratorsIndependent ==
    \A c \in 1..Len(calls) :
        calls[c].generator /\ Overlapping(c) /\ Finished(c) =>
            /\ calls[c].err = NoError
            /\ calls[c].out = OwnMatches(c)

\* Two generators of one Parser, the second created before the first was
\* read, have both ended.
C39_Reached ==
    /\ Len(calls) = 2
    /\ calls[1].generator /\ calls[2].generator
    /\ 1 \in calls[2].outstanding
    /\ Finished(1) /\ Finished(2)

----------------------------------------------------------------------------
(* Claims about the height of the ancestor stack *)

\* C40: after every event the stack is empty while the handler ignores,
\* as high as the path when match_depth <= 0, and match_depth - 1 entries
\* lower than the path when match_depth >= 1 and the handler does not
\* ignore; end_element never pops an empty stack.
C40_StackHeight ==
    /\ in_ignore => stack = <<>>
    /\ match_depth <= 0 => Len(stack) = Len(path)
    /\ match_depth >= 1 /\ ~in_ignore => Len(stack) = Len(path) - match_depth + 1
    /\ error # IndexError

\* An element below the match_depth of 2 has ended inside an element at
\* that depth, which the handler had ignored its way down to.
C40_Witness ==
    /\ match_depth = 2
    /\ ~in_ignore
    /\ Len(path) = 2 /\ Len(stack) = 1
    /\ events # <<>> /\ events[Len(events)].type = "end"

\* With no match string, and with the match string "/", the stack followed
\* the path down and up again.
C40_NoIgnoreReached ==
    /\ match_depth <= 0
    /\ Len(stack) = 1
    /\ events # <<>> /\ events[Len(events)].type = "end"

====
